---- MODULE Spec2Model ----
(***************************************************************************)
(* Model of the GDT invoice import pipeline.                               *)
(*                                                                         *)
(*   Spec         GdtInvoiceImportWorkflow: login, discovery, the adaptive *)
(*                Phase-1 batches, the Phase-2 retry pass, the run result  *)
(*                and the progress query                                   *)
(*   SpecExample  the same workflow on the 230-invoice example run         *)
(*   SpecRun      the same workflow with every login and discovery outcome *)
(*                and every discovery configuration, on short lists        *)
(*   SpecCancel   the same workflow with the cancel_workflow signal and    *)
(*                the cancellation request of cancel_task                  *)
(*   SpecFetch    the same workflow with the attempts of the fetch_invoice  *)
(*                activity under the retry policy of _fetch_single_invoice *)
(*   SpecDiscover the discover_invoices activity: its flow-batch loop and    *)
(*                the result it returns or the error it raises             *)
(*   SpecFlowAdapt the adaptation of the flow batches on its own           *)
(*   SpecAuthCache APIGDTAuthService.authenticate_with_cache and the token *)
(*                cache                                                    *)
(*   SpecFreshAuth APIGDTAuthService._perform_fresh_authentication         *)
(*   SpecConfig   BatchConfig under every sequence of batch outcomes       *)
(*   SpecChunk    DirectAPICrawler._split_date_range_by_month and the      *)
(*                chunk loop of crawl_all_flows_direct                     *)
(*   SpecPage     the page loop of one (flow, status) pair                 *)
(*   SpecStart    start_task and _generate_workflow_id                     *)
(*                                                                         *)
(* Python lists are sequences indexed from 1; loop offsets (i, ri) keep    *)
(* the 0-based values of the code.  Delays are whole seconds.              *)
(***************************************************************************)
EXTENDS Integers, Sequences, FiniteSets, TLC

VARIABLES
    \* ---- GdtInvoiceImportWorkflow
    pc,                 \* position of the run coroutine
    scenario,           \* which fetch outcomes the environment may produce
    processing_mode,    \* self.processing_mode
    session,            \* self.session
    invoices,           \* self.invoices
    results,            \* self.results
    total_invoices,     \* self.total_invoices
    completed_invoices, \* self.completed_invoices
    failed_invoices,    \* self.failed_invoices
    config,             \* BatchConfig of _process_invoice_batches
    step,               \* the step of range(0, len(invoices), batch_size)
    i,                  \* loop offset of _process_invoice_batches
    all_results,        \* all_results of _process_invoice_batches
    tasks,              \* the tasks of the asyncio.gather in progress
    inflight,           \* fetch activities started and not yet finished
    retry_list,         \* failed_invoices of _retry_failed_invoices
    ri,                 \* loop offset of _retry_failed_invoices
    run_result,         \* the dict returned by run (None while running)
    faults,             \* the burst of Phase-1 fetch failures produced so far
    run_params,         \* the params argument of run (the keys read here)
    login_attempts,     \* attempts of the login_to_gdt activity so far
    discovery_calls,    \* the discovery activities executed by _discover
    cancel_state,       \* "none", "signalled" (cancel_workflow) or "requested"
    missing,            \* invoices lacking nbmst, khhdon or shdon
    attempt,            \* fetch in flight -> attempts that raised so far
    net_requests,       \* invoice id -> detail requests sent to the portal
    \* ---- history of the run (observations, never read by the workflow)
    p1_fetches,         \* invoice id -> number of Phase-1 fetches launched
    p1_outcome,         \* invoice id -> set of Phase-1 outcomes observed
    retry_fetches,      \* invoice id -> number of Phase-2 fetches launched
    retry_ok,           \* invoice ids whose Phase-2 fetch succeeded
    p1_snapshot,        \* results and counters when Phase 1 ended
    \* ---- DirectAPICrawler.crawl_all_flows_direct
    cpc,                \* position of the crawl coroutine
    start_date,         \* its start_date argument
    end_date,           \* its end_date argument
    date_chunks,        \* date_chunks
    chunk_idx,          \* chunk_idx of the chunk being processed
    crawl_results,      \* all_results
    chunk_calls,        \* calls of _process_api_chunk / _process_excel_chunk
    chunk_log,          \* what the loop logged for each chunk (history)
    crawl_return,       \* the returned list (<<>> until it returns)
    \* ---- the page loop of one (flow, status) pair
    ppc,                \* position of the page loop
    impl,               \* "activity" (_make_api_request) or "direct"
    k_full,             \* server: number of full pages, each with a token
    short_len,          \* server: items on the last page, which has no token
    has_total,          \* server: whether a page carries a "total" field
    page,               \* page
    state_token,        \* state_token
    all_datas,          \* all_data["datas"], one entry per page appended
    all_total,          \* all_data["total"]
    page_requests,      \* page requests issued
    server_fault,       \* server: the request answered with an error status
    page_error,         \* the GDTDiscoveryError the page loop raised, or None
    \* ---- start_task
    now,                \* int(time.time() * 1000)
    reqs,               \* the POST /api/tasks/start requests
    runs,               \* the workflow runs of the Temporal server
    \* ---- discover_invoices
    dpc,                \* position of the activity coroutine
    flows,              \* the flows argument
    flow_i,             \* i of the flow-batch loop
    flow_batch_size,    \* flow_batch_size
    flow_delay,         \* flow_delay, in microseconds
    flow_results,       \* all_results of the activity
    discovery_return,   \* what the activity returned or raised
    \* ---- BatchConfig on its own
    cfg_pc,             \* "idle" until the BatchConfig is constructed
    bc,                 \* the BatchConfig
    bc_prev,            \* the BatchConfig before the last batch
    bc_batch,           \* the results of the last batch
    \* ---- the adaptation of the flow batches on its own
    fa,                 \* batch size and delay, before and after a batch
    \* ---- APIGDTAuthService.authenticate_with_cache and token_cache
    auth_pc,            \* position of authenticate_with_cache
    token_cache,        \* (username, password) -> cached token, 0 for none
    auth_args,          \* the credentials and force_refresh of the call
    cached_token,       \* cached_token of the call, 0 for None
    auth_return,        \* the (success, bearer_token) tuple returned
    issued,             \* tokens the portal has issued so far
    cache_reads,        \* token_cache.get_token calls of the call (history)
    probe_ok,           \* tokens whose probe succeeded in the call (history)
    probe_failed,       \* tokens whose probe has ever failed (history)
    \* ---- APIGDTAuthService._perform_fresh_authentication
    pf_pc,              \* position of _perform_fresh_authentication
    pf_attempt,         \* attempt of the loop over range(max_retries)
    pf_return,          \* the (success, token) tuple returned
    pf_outcomes,        \* how the attempts made so far ended (history)
    \* ---- _download_excel_files_for_flows (gdt_excel_discovery.py)
    dl                  \* the export: its loops, sleeps and downloaded files

wfVars == <<pc, scenario, processing_mode, session, invoices, results,
            total_invoices, completed_invoices, failed_invoices, config, step,
            i, all_results, tasks, inflight, retry_list, ri,
            run_result, faults, p1_fetches, p1_outcome, retry_fetches,
            retry_ok, p1_snapshot, run_params, login_attempts,
            discovery_calls, cancel_state, missing, attempt, net_requests>>

fetchVars == <<missing, attempt, net_requests>>

frontVars == <<run_params, login_attempts, discovery_calls, cancel_state,
               fetchVars>>

chunkVars == <<cpc, start_date, end_date, date_chunks, chunk_idx,
               crawl_results, chunk_calls, chunk_log, crawl_return>>

pageVars == <<ppc, impl, k_full, short_len, has_total, page, state_token,
              all_datas, all_total, page_requests, server_fault, page_error>>

startVars == <<now, reqs, runs>>

flowVars == <<dpc, flows, flow_i, flow_batch_size, flow_delay, flow_results,
              discovery_return>>

cfgVars == <<cfg_pc, bc, bc_prev, bc_batch>>

cacheVars == <<auth_pc, token_cache, auth_args, cached_token, auth_return,
               issued, cache_reads, probe_ok, probe_failed>>

freshVars == <<pf_pc, pf_attempt, pf_return, pf_outcomes>>

restVars == <<fa, cacheVars, freshVars, dl>>

vars == <<wfVars, chunkVars, pageVars, startVars, flowVars, cfgVars,
          restVars>>

None == "None"

(***************************************************************************)
(* Bounds of the model.                                                    *)
(***************************************************************************)
MaxInvoices == 18       \* longest discovered invoice list of Spec
MaxExportFlows == 2     \* longest flows list of a bulk export
MaxFailures == 4        \* longest burst of Phase-1 fetch failures
ExampleInvoices == 230  \* the discovered invoices of the example run

Min(a, b) == IF a <= b THEN a ELSE b
Max(a, b) == IF a >= b THEN a ELSE b

(***************************************************************************)
(* Dates.  A date is [year, month, day].                                   *)
(***************************************************************************)
Date(y, m, d) == [year |-> y, month |-> m, day |-> d]

IsLeap(y) == (y % 4 = 0 /\ y % 100 /= 0) \/ y % 400 = 0

\* calendar.monthrange(year, month)[1]
last_day_of_month(y, m) ==
    IF m = 2 THEN (IF IsLeap(y) THEN 29 ELSE 28)
    ELSE IF m \in {4, 6, 9, 11} THEN 30 ELSE 31

\* date.__lt__, date.__le__
DateLess(a, b) ==
    \/ a.year < b.year
    \/ a.year = b.year /\ a.month < b.month
    \/ a.year = b.year /\ a.month = b.month /\ a.day < b.day

DateLeq(a, b) == a = b \/ DateLess(a, b)

DateMin(a, b) == IF DateLeq(a, b) THEN a ELSE b

(***************************************************************************)
(* BatchConfig and RetryConfig.                                            *)
(***************************************************************************)
DefaultBatchSize == 8
DefaultMinBatchSize == 3
DefaultMaxBatchSize == 10
DefaultBaseDelay == 1
SequentialDelay == 2
MaxDelay == 5
RetryBatchSize == 3
RetryDelay == 3

\* a BatchConfig whose __post_init__ leaves the sizes as declared
BatchConfig_declared(mode) ==
    [batch_size |-> DefaultBatchSize,
     min_batch_size |-> DefaultMinBatchSize,
     max_batch_size |-> DefaultMaxBatchSize,
     delay |-> IF mode = "sequential" THEN SequentialDelay ELSE DefaultBaseDelay,
     base_delay |-> IF mode = "sequential" THEN SequentialDelay
                    ELSE DefaultBaseDelay]

\* BatchConfig(processing_mode=...) with __post_init__ applied
BatchConfig(mode) ==
    IF mode = "sequential"
    THEN [batch_size |-> 1, min_batch_size |-> 1, max_batch_size |-> 1,
          delay |-> SequentialDelay, base_delay |-> SequentialDelay]
    ELSE [batch_size |-> DefaultBatchSize,
          min_batch_size |-> DefaultMinBatchSize,
          max_batch_size |-> DefaultMaxBatchSize,
          delay |-> DefaultBaseDelay, base_delay |-> DefaultBaseDelay]

reduce_batch_size(c) ==
    [c EXCEPT !.batch_size = Max(c.min_batch_size, c.batch_size - 2)]

increase_batch_size(c) ==
    [c EXCEPT !.batch_size = Min(c.max_batch_size, c.batch_size + 1)]

\* a delay that grows with the rate-limit errors without the cap
increase_delay_uncapped(c, rate_limit_errors) ==
    [c EXCEPT !.delay = c.base_delay * (1 + rate_limit_errors)]

increase_delay(c, rate_limit_errors) ==
    [c EXCEPT !.delay = Min(MaxDelay, c.base_delay * (1 + rate_limit_errors))]

\* a reset that leaves the delay as it is
reset_delay_kept(c) == c

reset_delay(c) == [c EXCEPT !.delay = c.base_delay]

(***************************************************************************)
(* InvoiceFetchResult and the classification of a batch.                   *)
(***************************************************************************)
RateLimitMessage == "Rate limit exceeded (429)"
OtherMessage == "Download failed: HTTP 500"

Success(inv) == [invoice_id |-> inv, success |-> TRUE, error |-> None]
Failure(inv, msg) == [invoice_id |-> inv, success |-> FALSE, error |-> msg]

\* "429" in error_str or "rate limit" in error_str, on the messages of the model
_is_rate_limit_error(error) ==
    IF error = None THEN FALSE ELSE error = RateLimitMessage

\* the number of indexes of s in the set idx
CountIn(s, idx) == Cardinality({n \in 1..Len(s) : n \in idx})

_analyze_batch_results(batch_results) ==
    LET all == 1..Len(batch_results)
        ok == {n \in all : batch_results[n].success}
        bad == {n \in all : ~batch_results[n].success}
        limited == {n \in bad : _is_rate_limit_error(batch_results[n].error)}
    IN  [successes |-> CountIn(batch_results, ok),
         failures |-> CountIn(batch_results, bad),
         rate_limit_errors |-> CountIn(batch_results, limited)]

\* the two size adjustments taken in each other's place
_update_batch_config_swapped(c, batch_results) ==
    LET stats == _analyze_batch_results(batch_results)
        sized == IF stats.rate_limit_errors > 0
                 THEN increase_batch_size(c)
                 ELSE IF stats.successes * 10 >= Len(batch_results) * 8
                      THEN reduce_batch_size(c)
                      ELSE c
    IN  IF stats.rate_limit_errors > 0
        THEN increase_delay(sized, stats.rate_limit_errors)
        ELSE reset_delay(sized)

_update_batch_config(c, batch_results) ==
    LET stats == _analyze_batch_results(batch_results)
        sized == IF stats.rate_limit_errors > 0
                 THEN reduce_batch_size(c)
                 ELSE IF stats.successes * 10 >= Len(batch_results) * 8
                      THEN increase_batch_size(c)
                      ELSE c
    IN  IF stats.rate_limit_errors > 0
        THEN increase_delay(sized, stats.rate_limit_errors)
        ELSE reset_delay(sized)

(***************************************************************************)
(* The run's result and the progress query.                                *)
(***************************************************************************)
NoResult == [status |-> "running"]

\* round(completed / total * 100, 2), in hundredths of a percent
Percent(completed, total) ==
    IF total > 0 THEN (2 * 10000 * completed + total) \div (2 * total) ELSE 0

CompletedResult(total, completed, failed) ==
    [status |-> "completed",
     company_id |-> "company",
     total_invoices |-> total,
     completed_invoices |-> completed,
     failed_invoices |-> failed,
     success_rate |-> Percent(completed, total),
     result_ref |-> "wf"]

FailedResult(error, total, completed) ==
    [status |-> "failed",
     error |-> error,
     completed_invoices |-> completed,
     total_invoices |-> total]

get_progress ==
    [total_invoices |-> total_invoices,
     completed_invoices |-> completed_invoices,
     failed_invoices |-> failed_invoices,
     percentage |-> Percent(completed_invoices, total_invoices)]

(***************************************************************************)
(* Helpers on lists.                                                       *)
(***************************************************************************)
\* invoices[a:b] with Python's 0-based, end-exclusive, clamped slice
Slice(s, a, b) ==
    IF a >= Len(s) THEN <<>> ELSE SubSeq(s, a + 1, Min(b, Len(s)))

\* list.index(x): the first position holding x (0 when absent: ValueError)
IndexOf(s, x) ==
    IF \E k \in 1..Len(s) : s[k] = x
    THEN CHOOSE k \in 1..Len(s) : s[k] = x /\ \A m \in 1..(k - 1) : s[m] /= x
    ELSE 0

Occurrences(s, x) == Cardinality({k \in 1..Len(s) : s[k] = x})

(***************************************************************************)
(* The tasks of one asyncio.gather.                                        *)
(***************************************************************************)
NewTasks(batch) ==
    [j \in 1..Len(batch) |->
        [invoice |-> batch[j], done |-> FALSE, result |-> Failure(batch[j], None)]]

TaskIds(phase, offset, batch) ==
    {[phase |-> phase, offset |-> offset, slot |-> j, invoice |-> batch[j]] :
        j \in 1..Len(batch)}

\* a gather that returns as soon as one task has (FIRST_COMPLETED)
GatherDone_first(ts) == \E j \in 1..Len(ts) : ts[j].done

\* asyncio.gather(*tasks, return_exceptions=True) returns when every task has
GatherDone(ts) == \A j \in 1..Len(ts) : ts[j].done

GatherResults(ts) == [j \in 1..Len(ts) |-> ts[j].result]

\* position of the batch in flight among the batches of its phase
BatchOrdinal == IF pc \in {"gather2", "sleep2"}
                THEN ri \div RetryBatchSize + 1
                ELSE i \div step + 1

(***************************************************************************)
(* _get_failed_invoices.  self.invoices[i] raises IndexError when a failed *)
(* result sits at a position beyond the invoice list.                      *)
(***************************************************************************)
RECURSIVE FailedUpTo(_, _, _)
FailedUpTo(res, inv, n) ==
    IF n = 0 THEN <<>>
    ELSE IF res[n].success THEN FailedUpTo(res, inv, n - 1)
         ELSE Append(FailedUpTo(res, inv, n - 1), inv[n])

GetFailedRaises(res, inv) ==
    \E k \in 1..Len(res) : ~res[k].success /\ k > Len(inv)

_get_failed_invoices(res, inv) == FailedUpTo(res, inv, Len(res))

(***************************************************************************)
(* The result loop of _process_retry_batch over retry_results[1..n]:       *)
(* the state [results, completed, failed, raised] after n results.         *)
(***************************************************************************)
\* a retry pass that counts a retry failing again as one more failure
RECURSIVE ApplyRetry_recount(_, _, _, _, _)
ApplyRetry_recount(st, inv, retry_batch, retry_results, n) ==
    IF n = 0 THEN st
    ELSE LET prev == ApplyRetry_recount(st, inv, retry_batch, retry_results,
                                        n - 1)
             retry_result == retry_results[n]
             original_index == IndexOf(inv, retry_batch[n])
         IN  IF prev.raised THEN prev
             ELSE IF ~retry_result.success
                  THEN [prev EXCEPT !.failed = prev.failed + 1]
             ELSE IF original_index < 1 \/ original_index > Len(prev.results)
                  THEN [prev EXCEPT !.raised = TRUE]
                  ELSE [results |-> [prev.results EXCEPT
                                        ![original_index] = retry_result],
                        completed |-> prev.completed + 1,
                        failed |-> prev.failed - 1,
                        raised |-> FALSE]

\* a promotion that takes two units from the failed counter
RECURSIVE ApplyRetry_twice(_, _, _, _, _)
ApplyRetry_twice(st, inv, retry_batch, retry_results, n) ==
    IF n = 0 THEN st
    ELSE LET prev == ApplyRetry_twice(st, inv, retry_batch, retry_results, n - 1)
             retry_result == retry_results[n]
             original_index == IndexOf(inv, retry_batch[n])
         IN  IF prev.raised \/ ~retry_result.success THEN prev
             ELSE IF original_index < 1 \/ original_index > Len(prev.results)
                  THEN [prev EXCEPT !.raised = TRUE]
                  ELSE [results |-> [prev.results EXCEPT
                                        ![original_index] = retry_result],
                        completed |-> prev.completed + 1,
                        failed |-> prev.failed - 2,
                        raised |-> FALSE]

RECURSIVE ApplyRetry(_, _, _, _, _)
ApplyRetry(st, inv, retry_batch, retry_results, n) ==
    IF n = 0 THEN st
    ELSE LET prev == ApplyRetry(st, inv, retry_batch, retry_results, n - 1)
             retry_result == retry_results[n]
             original_index == IndexOf(inv, retry_batch[n])
         IN  IF prev.raised \/ ~retry_result.success THEN prev
             ELSE IF original_index < 1 \/ original_index > Len(prev.results)
                  THEN [prev EXCEPT !.raised = TRUE]
                  ELSE [results |-> [prev.results EXCEPT
                                        ![original_index] = retry_result],
                        completed |-> prev.completed + 1,
                        failed |-> prev.failed - 1,
                        raised |-> FALSE]

(***************************************************************************)
(* The fetch outcomes the environment may produce for an activity.         *)
(* scenario "any": in Phase 1 one burst of at most MaxFailures failures,   *)
(* on consecutive invoices and with one message (rate-limited or not); a   *)
(* retry succeeds or fails.  scenario "example": the first three invoices  *)
(* of the sixth batch are rate-limited, everything else succeeds.          *)
(***************************************************************************)
NoFaults == [count |-> 0, last |-> 0, error |-> None]

\* ---- the attempts of one fetch_invoice activity (scenario "fetch")
FetchInvoices == 2      \* the invoice list of SpecFetch

\* RetryPolicy(maximum_attempts=5) of _fetch_single_invoice
FetchMaxAttempts == 5

MissingMessage == "Missing required invoice parameters"
AuthMessage == "Authentication failed: 401"

\* which invoices of a list of n lack an identifying field
MissingSets(n) ==
    IF scenario = "fetch" THEN {m \in SUBSET (1..n) : Cardinality(m) <= 1}
    ELSE {{}}

\* the attempts of the fetch t that raised so far
AttemptsOf(t) == IF t \in DOMAIN attempt THEN attempt[t] ELSE 0

\* a retry policy that allows one attempt more
AttemptsLeft_sixth(t) == AttemptsOf(t) < FetchMaxAttempts

\* the retry policy schedules another attempt after the one in progress
AttemptsLeft(t) == AttemptsOf(t) + 1 < FetchMaxAttempts

\* how the attempt in progress of fetch_invoice can end the activity: the
\* result it returns (missing parameters without any request; 200; 401 or
\* 403), or the exception of the last attempt the retry policy allows (429,
\* another status, a transport error), which _fetch_single_invoice turns
\* into a failed result
FetchOutcomes(t) ==
    IF t.invoice \in missing
    THEN {Failure(t.invoice, MissingMessage)}
    ELSE {Success(t.invoice), Failure(t.invoice, AuthMessage)} \cup
         (IF AttemptsLeft(t) THEN {}
          ELSE {Failure(t.invoice, RateLimitMessage),
                Failure(t.invoice, OtherMessage)})

\* the request of the attempt that ends the activity
CountRequest(t) ==
    IF scenario = "fetch" /\ t.invoice \notin missing
    THEN [net_requests EXCEPT ![t.invoice] = @ + 1]
    ELSE net_requests

MayFail(t) ==
    /\ faults.count < MaxFailures
    /\ faults.count > 0 => t.invoice = faults.last + 1

FailureMessages ==
    IF faults.count = 0 THEN {RateLimitMessage, OtherMessage}
    ELSE {faults.error}

Outcomes(t) ==
    IF scenario = "fetch" THEN FetchOutcomes(t)
    ELSE IF scenario = "example"
    THEN IF t.phase = 1 /\ t.offset \div step + 1 = 6 /\ t.slot <= 3
         THEN {Failure(t.invoice, RateLimitMessage)}
         ELSE {Success(t.invoice)}
    ELSE IF t.phase = 1
         THEN {Success(t.invoice)} \cup
              (IF MayFail(t)
               THEN {Failure(t.invoice, msg) : msg \in FailureMessages}
               ELSE {})
         ELSE {Success(t.invoice), Failure(t.invoice, OtherMessage)}

(***************************************************************************)
(* Continuations of the run coroutine.  Each one fixes the next values of  *)
(* ctlVars; the action that uses it fixes the other variables.             *)
(***************************************************************************)
ctlVars == <<pc, i, tasks, inflight, results, retry_list, ri, run_result,
             p1_snapshot, p1_fetches, retry_fetches>>

CountLaunches(count, batch) ==
    [k \in DOMAIN count |-> count[k] + Occurrences(batch, k)]

\* run returns the "completed" dict
Finish(total, completed, failed) ==
    /\ pc' = "done"
    /\ run_result' = CompletedResult(total, completed, failed)

\* an except branch that reports the run as completed
Fail_completed(error, total, completed) ==
    /\ pc' = "done"
    /\ run_result' = CompletedResult(total, completed, 0)

\* run's except branch returns the "failed" dict
Fail(error, total, completed) ==
    /\ pc' = "done"
    /\ run_result' = FailedResult(error, total, completed)

\* one iteration of the Phase-1 loop, up to asyncio.gather
LaunchBatch(offset, c) ==
    LET batch == Slice(invoices', offset, offset + c.batch_size)
    IN  /\ pc' = "gather1"
        /\ i' = offset
        /\ tasks' = NewTasks(batch)
        /\ inflight' = inflight \cup TaskIds(1, offset, batch)
        /\ p1_fetches' = CountLaunches(IF pc \in {"discover", "fallback"}
                                       THEN [k \in 1..Len(invoices') |-> 0]
                                       ELSE p1_fetches, batch)
        /\ UNCHANGED <<results, retry_list, ri, run_result, p1_snapshot,
                       retry_fetches>>

\* one iteration of the retry loop, up to asyncio.gather
LaunchRetryBatch(offset, failed_list) ==
    LET retry_batch == Slice(failed_list, offset, offset + RetryBatchSize)
    IN  /\ pc' = "gather2"
        /\ ri' = offset
        /\ tasks' = NewTasks(retry_batch)
        /\ inflight' = inflight \cup TaskIds(2, offset, retry_batch)
        /\ retry_fetches' = CountLaunches(retry_fetches, retry_batch)

\* _fetch_all_invoices without its retry pass
EndPhase1_noretry(allres, total, completed, failed) ==
    /\ results' = allres
    /\ p1_snapshot' = [results |-> allres, completed |-> completed,
                       failed |-> failed]
    /\ retry_list' = FailedUpTo(allres, invoices',
                                Min(Len(allres), Len(invoices')))
    /\ Finish(total, completed, failed)
    /\ UNCHANGED <<i, tasks, inflight, ri, p1_fetches, retry_fetches>>

\* the end of _process_invoice_batches and the start of _retry_failed_invoices
EndPhase1(allres, total, completed, failed) ==
    /\ results' = allres
    /\ p1_snapshot' = [results |-> allres, completed |-> completed,
                       failed |-> failed]
    /\ IF GetFailedRaises(allres, invoices')
       THEN /\ Fail("list index out of range", total, completed)
            /\ UNCHANGED <<i, tasks, inflight, retry_list, ri, p1_fetches,
                           retry_fetches>>
       ELSE LET failed_list == _get_failed_invoices(allres, invoices')
            IN  /\ retry_list' = failed_list
                /\ IF failed_list = <<>>
                   THEN /\ Finish(total, completed, failed)
                        /\ UNCHANGED <<i, tasks, inflight, ri, p1_fetches,
                                       retry_fetches>>
                   ELSE /\ LaunchRetryBatch(0, failed_list)
                        /\ UNCHANGED <<i, run_result, p1_fetches>>

\* the head of the Phase-1 loop: range(0, len(self.invoices), step)
LoopHead(offset, c, allres, total, completed, failed) ==
    IF offset < Len(invoices')
    THEN LaunchBatch(offset, c)
    ELSE EndPhase1(allres, total, completed, failed)

(***************************************************************************)
(* The params of a run, the login retry policy and the discovery           *)
(* activities of _discover.                                                *)
(***************************************************************************)
MaxLoginAttempts == 5

RunInvoices == 4        \* the non-empty invoice list of SpecRun

\* params.get("discovery_method", "excel"), params.get("excel_fallback", True)
DefaultParams ==
    [discovery_method |-> "excel",
     excel_fallback |-> TRUE,
     date_range_start |-> Date(2024, 1, 1),
     date_range_end |-> Date(2024, 1, 31)]

DiscoveryMethods == {"api", "excel", "csv"}

DateRangeParams ==
    {<<Date(2024, 1, 1), Date(2024, 1, 31)>>,
     <<Date(2024, 1, 15), Date(2024, 3, 10)>>}

\* the params a run may be started with
RunParams ==
    IF scenario = "run"
    THEN {[discovery_method |-> m, excel_fallback |-> f,
           date_range_start |-> r[1], date_range_end |-> r[2]] :
             m \in DiscoveryMethods, f \in BOOLEAN, r \in DateRangeParams}
    ELSE {DefaultParams}

\* DiscoveryConfig.__post_init__ raises ValueError
InvalidMethod(method) == method \notin {"api", "excel"}

\* workflow.execute_activity(discover_invoices | discover_invoices_excel, ...)
\* with the session and the date range of the params
DiscoveryCall(method, p) ==
    [method |-> method,
     date_range_start |-> p.date_range_start,
     date_range_end |-> p.date_range_end,
     outcome |-> "running"]

\* how a discovery activity ends for _discover: a non-empty list, an empty
\* list, or an exception once its retry policy is exhausted; SpecRun tells
\* the exception of a 401 or 403 answer from the others
DiscoveryOutcomes ==
    {"invoices", "empty", "raised"}
        \cup (IF scenario = "run" THEN {"auth_expired"} ELSE {})

\* the last discovery call, ended with this outcome
EndCall(calls, outcome) ==
    [calls EXCEPT ![Len(calls)].outcome = outcome]

\* "if discovery_config.excel_fallback and discovery_config.method == 'api'",
\* reached once, after the primary method
FallbackPending ==
    /\ pc = "discover"
    /\ run_params.excel_fallback
    /\ run_params.discovery_method = "api"

(***************************************************************************)
(* GdtInvoiceImportWorkflow: the state after __init__.                     *)
(***************************************************************************)
InitWorkflow ==
    /\ pc = "idle"
    /\ processing_mode = "sequential"
    /\ session = None
    /\ invoices = <<>>
    /\ results = <<>>
    /\ total_invoices = 0
    /\ completed_invoices = 0
    /\ failed_invoices = 0
    /\ config = BatchConfig("sequential")
    /\ step = 1
    /\ i = 0
    /\ all_results = <<>>
    /\ tasks = <<>>
    /\ inflight = {}
    /\ retry_list = <<>>
    /\ ri = 0
    /\ run_result = NoResult
    /\ faults = NoFaults
    /\ p1_fetches = <<>>
    /\ p1_outcome = <<>>
    /\ retry_fetches = <<>>
    /\ retry_ok = {}
    /\ p1_snapshot = [results |-> <<>>, completed |-> 0, failed |-> 0]
    /\ run_params = DefaultParams
    /\ login_attempts = 0
    /\ discovery_calls = <<>>
    /\ cancel_state = "none"
    /\ missing = {}
    /\ attempt = <<>>
    /\ net_requests = <<>>

ProcessingModes == {"sequential", "parallel"}

\* run, up to the first attempt of the login activity
StartRun ==
    /\ pc = "idle"
    /\ \E mode \in ProcessingModes : processing_mode' = mode
    /\ \E p \in RunParams : run_params' = p
    /\ login_attempts' = 1
    /\ pc' = "login"
    /\ UNCHANGED <<discovery_calls, cancel_state, fetchVars>>
    /\ UNCHANGED <<scenario, session, invoices, results, total_invoices,
                   completed_invoices, failed_invoices, config, step, i,
                   all_results, tasks, inflight, retry_list, ri, run_result,
                   faults, p1_fetches, p1_outcome, retry_fetches, retry_ok,
                   p1_snapshot>>

\* a login attempt raised GDTAuthError (retryable) and the retry policy has
\* attempts left: the activity is attempted again
LoginRetry ==
    /\ pc = "login"
    /\ login_attempts < MaxLoginAttempts
    /\ login_attempts' = login_attempts + 1
    /\ UNCHANGED <<pc, scenario, processing_mode, session, invoices, results,
                   total_invoices, completed_invoices, failed_invoices, config,
                   step, i, all_results, tasks, inflight, retry_list, ri,
                   run_result, faults, p1_fetches, p1_outcome, retry_fetches,
                   retry_ok, p1_snapshot, run_params, discovery_calls,
                   cancel_state, fetchVars>>

\* the login activity returned a session: run enters _discover, which builds
\* the DiscoveryConfig and starts the primary discovery activity
LoginSucceeds ==
    /\ pc = "login"
    /\ session' = "session"
    /\ IF InvalidMethod(run_params.discovery_method)
       THEN /\ Fail("Invalid discovery method", total_invoices,
                    completed_invoices)
            /\ UNCHANGED discovery_calls
       ELSE /\ pc' = "discover"
            /\ discovery_calls' =
                  <<DiscoveryCall(run_params.discovery_method, run_params)>>
            /\ UNCHANGED run_result
    /\ UNCHANGED <<scenario, processing_mode, invoices, results,
                   total_invoices, completed_invoices, failed_invoices, config,
                   step, i, all_results, tasks, inflight, retry_list, ri,
                   faults, p1_fetches, p1_outcome, retry_fetches,
                   retry_ok, p1_snapshot, run_params, login_attempts,
                   cancel_state, fetchVars>>

\* the messages of the two ways the login activity fails for good
LoginErrors == {"Invalid credentials", "Rate limit exceeded (429)"}

\* the login activity failed for good, with GDTInvalidCredentialsError
\* (non-retryable) or with GDTAuthError on the last attempt: run's except
\* branch
LoginFails ==
    /\ pc = "login"
    /\ \E error \in LoginErrors :
          /\ error /= "Invalid credentials" =>
                login_attempts = MaxLoginAttempts
          /\ Fail(error, total_invoices, completed_invoices)
    /\ UNCHANGED <<scenario, processing_mode, session, invoices, results,
                   total_invoices, completed_invoices, failed_invoices, config,
                   step, i, all_results, tasks, inflight, retry_list, ri,
                   faults, p1_fetches, p1_outcome, retry_fetches, retry_ok,
                   p1_snapshot, frontVars>>

\* the primary discovery method raised or returned no invoice and the
\* fallback applies: the Excel discovery activity is started
DiscoverFallback ==
    /\ FallbackPending
    /\ \E outcome \in DiscoveryOutcomes \ {"invoices"} :
          discovery_calls' =
              Append(EndCall(discovery_calls, outcome),
                     DiscoveryCall("excel", run_params))
    /\ pc' = "fallback"
    /\ UNCHANGED <<scenario, processing_mode, session, invoices, results,
                   total_invoices, completed_invoices, failed_invoices, config,
                   step, i, all_results, tasks, inflight, retry_list, ri,
                   run_result, faults, p1_fetches, p1_outcome, retry_fetches,
                   retry_ok, p1_snapshot, run_params, login_attempts,
                   cancel_state, fetchVars>>

\* the invoice lists discovery may return: n distinct invoices
InvoiceCounts == IF scenario = "example" THEN {ExampleInvoices}
                 ELSE IF scenario \in {"run", "cancel"} THEN {0, RunInvoices}
                 ELSE IF scenario = "fetch" THEN {FetchInvoices}
                      ELSE 0..MaxInvoices

\* _discover returned; run stores the list and enters _fetch_all_invoices,
\* which builds the BatchConfig and runs the Phase-1 loop up to its first await
DiscoverDone ==
    /\ pc \in {"discover", "fallback"}
    /\ \E n \in InvoiceCounts, outcome \in DiscoveryOutcomes :
        /\ outcome = "invoices" <=> n > 0
        /\ n = 0 => ~FallbackPending
        /\ discovery_calls' = EndCall(discovery_calls, outcome)
        /\ invoices' = [k \in 1..n |-> k]
        /\ total_invoices' = n
        /\ p1_outcome' = [k \in 1..n |-> {}]
        /\ retry_fetches' = [k \in 1..n |-> 0]
        /\ \E m \in MissingSets(n) : missing' = m
        /\ net_requests' = [k \in 1..n |-> 0]
    /\ config' = BatchConfig(processing_mode)
    /\ step' = config'.batch_size
    /\ all_results' = <<>>
    /\ IF 0 < Len(invoices')
       THEN /\ pc' = "gather1"
            /\ i' = 0
            /\ LET batch == Slice(invoices', 0, config'.batch_size)
               IN  /\ tasks' = NewTasks(batch)
                   /\ inflight' = inflight \cup TaskIds(1, 0, batch)
                   /\ p1_fetches' =
                        CountLaunches([k \in 1..Len(invoices') |-> 0], batch)
            /\ UNCHANGED <<results, retry_list, ri, run_result, p1_snapshot>>
       ELSE /\ results' = <<>>
            /\ p1_snapshot' = [results |-> <<>>, completed |-> 0, failed |-> 0]
            /\ retry_list' = <<>>
            /\ p1_fetches' = <<>>
            /\ Finish(0, completed_invoices, failed_invoices)
            /\ UNCHANGED <<i, tasks, inflight, ri>>
    /\ UNCHANGED <<scenario, processing_mode, session, completed_invoices,
                   failed_invoices, faults, retry_ok, run_params,
                   login_attempts, cancel_state, attempt>>

\* one fetch activity ends; _fetch_single_invoice turns an exception into a
\* failed InvoiceFetchResult, so the task always yields a result
TaskFinish ==
    /\ \E t \in inflight : \E r \in Outcomes(t) :
        /\ inflight' = inflight \ {t}
        /\ tasks' = IF \/ pc = "gather1" /\ t.phase = 1 /\ t.offset = i
                       \/ pc = "gather2" /\ t.phase = 2 /\ t.offset = ri
                    THEN [tasks EXCEPT ![t.slot] =
                            [invoice |-> t.invoice, done |-> TRUE, result |-> r]]
                    ELSE tasks
        /\ faults' = IF scenario = "any" /\ t.phase = 1 /\ ~r.success
                     THEN [count |-> faults.count + 1, last |-> t.invoice,
                           error |-> r.error]
                     ELSE faults
        /\ p1_outcome' = IF t.phase = 1
                         THEN [p1_outcome EXCEPT ![t.invoice] = @ \cup {r.success}]
                         ELSE p1_outcome
        /\ retry_ok' = IF t.phase = 2 /\ r.success
                       THEN retry_ok \cup {t.invoice} ELSE retry_ok
        /\ attempt' = [u \in DOMAIN attempt \ {t} |-> attempt[u]]
        /\ net_requests' = CountRequest(t)
    /\ UNCHANGED <<pc, scenario, processing_mode, session, invoices, results,
                   total_invoices, completed_invoices, failed_invoices, config,
                   step, i, all_results, retry_list, ri, run_result,
                   p1_fetches, retry_fetches, p1_snapshot>>
    /\ UNCHANGED <<run_params, login_attempts, discovery_calls, cancel_state,
                   missing>>

\* an attempt of a fetch_invoice activity raised (429, another non-2xx status
\* or a transport error) and the retry policy schedules the next attempt
FetchAttemptFails ==
    /\ scenario = "fetch"
    /\ \E t \in inflight :
        /\ t.invoice \notin missing
        /\ AttemptsLeft(t)
        /\ attempt' = [u \in DOMAIN attempt \cup {t} |->
                          IF u = t THEN AttemptsOf(t) + 1 ELSE attempt[u]]
        /\ net_requests' = [net_requests EXCEPT ![t.invoice] = @ + 1]
    /\ UNCHANGED <<pc, scenario, processing_mode, session, invoices, results,
                   total_invoices, completed_invoices, failed_invoices, config,
                   step, i, all_results, tasks, inflight, retry_list, ri,
                   run_result, faults, p1_fetches, p1_outcome, retry_fetches,
                   retry_ok, p1_snapshot, run_params, login_attempts,
                   discovery_calls, cancel_state, missing>>

\* asyncio.gather of a Phase-1 batch returns: _process_single_batch counts
\* the batch, _process_invoice_batches extends all_results, adapts the
\* BatchConfig, and either sleeps or goes on to the next iteration
BatchBarrier ==
    /\ pc = "gather1"
    /\ GatherDone(tasks)
    /\ LET batch_results == GatherResults(tasks)
           batch_stats == _analyze_batch_results(batch_results)
       IN  /\ completed_invoices' = completed_invoices + batch_stats.successes
           /\ failed_invoices' = failed_invoices + batch_stats.failures
           /\ all_results' = all_results \o batch_results
           /\ config' = _update_batch_config(config, batch_results)
    /\ UNCHANGED invoices
    /\ IF i + config'.batch_size < Len(invoices)
       THEN /\ pc' = "sleep1"
            /\ UNCHANGED <<i, tasks, inflight, results, retry_list, ri,
                           run_result, p1_snapshot, p1_fetches, retry_fetches>>
       ELSE LoopHead(i + step, config', all_results', total_invoices,
                     completed_invoices', failed_invoices')
    /\ UNCHANGED <<scenario, processing_mode, session, total_invoices, step,
                   faults, p1_outcome, retry_ok>>
    /\ UNCHANGED frontVars

\* asyncio.sleep(config.delay) returns: the next iteration of the loop
BatchWake ==
    /\ pc = "sleep1"
    /\ UNCHANGED invoices
    /\ LoopHead(i + step, config, all_results, total_invoices,
                completed_invoices, failed_invoices)
    /\ UNCHANGED <<scenario, processing_mode, session, total_invoices,
                   completed_invoices, failed_invoices, config, step,
                   all_results, faults, p1_outcome, retry_ok>>
    /\ UNCHANGED frontVars

\* asyncio.gather of a retry batch returns: _process_retry_batch promotes the
\* successful retries; _retry_failed_invoices sleeps or ends, and run returns
RetryBarrier ==
    /\ pc = "gather2"
    /\ GatherDone(tasks)
    /\ LET retry_batch == [j \in 1..Len(tasks) |-> tasks[j].invoice]
           after == ApplyRetry([results |-> results,
                                completed |-> completed_invoices,
                                failed |-> failed_invoices,
                                raised |-> FALSE],
                               invoices, retry_batch, GatherResults(tasks),
                               Len(tasks))
       IN  /\ results' = after.results
           /\ completed_invoices' = after.completed
           /\ failed_invoices' = after.failed
           /\ IF after.raised
              THEN Fail("list index out of range", total_invoices,
                        after.completed)
              ELSE IF ri + RetryBatchSize < Len(retry_list)
                   THEN pc' = "sleep2" /\ UNCHANGED run_result
                   ELSE Finish(total_invoices, after.completed, after.failed)
    /\ UNCHANGED <<scenario, processing_mode, session, invoices,
                   total_invoices, config, step, i, all_results, tasks,
                   inflight, retry_list, ri, faults, p1_fetches, p1_outcome,
                   retry_fetches, retry_ok, p1_snapshot>>
    /\ UNCHANGED frontVars

\* asyncio.sleep(retry_config.delay) returns: the next retry batch
RetryWake ==
    /\ pc = "sleep2"
    /\ LaunchRetryBatch(ri + RetryBatchSize, retry_list)
    /\ UNCHANGED <<scenario, processing_mode, session, invoices, results,
                   total_invoices, completed_invoices, failed_invoices, config,
                   step, i, all_results, retry_list, run_result, faults,
                   p1_fetches, p1_outcome, retry_ok, p1_snapshot>>
    /\ UNCHANGED frontVars

(***************************************************************************)
(* DirectAPICrawler: _split_date_range_by_month and the chunk loop of      *)
(* crawl_all_flows_direct.                                                 *)
(***************************************************************************)
\* the chunk that starts at current_start ends with its month or with end_date
current_end_nomin(current_start, end) ==
    Date(current_start.year, current_start.month,
         last_day_of_month(current_start.year, current_start.month))

current_end(current_start, end) ==
    DateMin(Date(current_start.year, current_start.month,
                 last_day_of_month(current_start.year, current_start.month)),
            end)

\* the first day of the next month
next_start(current_start) ==
    IF current_start.month = 12
    THEN Date(current_start.year + 1, 1, 1)
    ELSE Date(current_start.year, current_start.month + 1, 1)

\* the while loop of _split_date_range_by_month
RECURSIVE SplitLoop(_, _, _)
SplitLoop(current_start, end, chunks) ==
    IF ~DateLeq(current_start, end) THEN chunks
    ELSE LET ce == current_end(current_start, end)
             more == Append(chunks, <<current_start, ce>>)
         IN  IF ce = end THEN more
             ELSE SplitLoop(next_start(current_start), end, more)

\* the loop written as "while True", without the guard before it
RECURSIVE SplitLoop_unguarded(_, _, _)
SplitLoop_unguarded(current_start, end, chunks) ==
    LET ce == current_end(current_start, end)
        more == Append(chunks, <<current_start, ce>>)
    IN  IF ce = end \/ Len(more) > 48 THEN more
        ELSE SplitLoop_unguarded(next_start(current_start), end, more)

_split_date_range_by_month_unguarded(start, end) ==
    SplitLoop_unguarded(start, end, <<>>)

_split_date_range_by_month(start, end) ==
    IF DateLess(end, start) THEN <<>> ELSE SplitLoop(start, end, <<>>)

(***************************************************************************)
(* The date ranges the crawl is called with.                               *)
(***************************************************************************)
MaxSpanMonths == 3      \* longest range, in months from start to end

Years == {2023, 2024}
SampleDays == {1, 15, 28, 29, 30, 31}

Dates == {Date(y, m, d) : y \in Years, m \in 1..12, d \in SampleDays}

ValidDates == {d \in Dates : d.day <= last_day_of_month(d.year, d.month)}

MonthIndex(d) == d.year * 12 + d.month

NoDate == Date(0, 0, 0)

ChunkIdle ==
    /\ cpc = "idle"
    /\ start_date = NoDate
    /\ end_date = NoDate
    /\ date_chunks = <<>>
    /\ chunk_idx = 0
    /\ crawl_results = <<>>
    /\ chunk_calls = 0
    /\ chunk_log = <<>>
    /\ crawl_return = <<>>

InitChunk ==
    /\ cpc = "called"
    /\ start_date \in ValidDates
    /\ end_date \in {d \in ValidDates :
          /\ MonthIndex(d) - MonthIndex(start_date) <= MaxSpanMonths
          /\ MonthIndex(start_date) - MonthIndex(d) <= 1}
    /\ date_chunks = <<>>
    /\ chunk_idx = 0
    /\ crawl_results = <<>>
    /\ chunk_calls = 0
    /\ chunk_log = <<>>
    /\ crawl_return = <<>>

\* crawl_all_flows_direct up to its first await: the split, then either the
\* first chunk's processing call or, with no chunk, the return of all_results
CrawlStart ==
    /\ cpc = "called"
    /\ date_chunks' = _split_date_range_by_month(start_date, end_date)
    /\ IF Len(date_chunks') > 0
       THEN /\ cpc' = "processing"
            /\ chunk_idx' = 1
            /\ chunk_calls' = chunk_calls + 1
            /\ UNCHANGED crawl_return
       ELSE /\ cpc' = "returned"
            /\ crawl_return' = crawl_results
            /\ UNCHANGED <<chunk_idx, chunk_calls>>
    /\ UNCHANGED <<start_date, end_date, crawl_results, chunk_log>>

\* how the try block of a chunk ends: with the chunk's invoices (each tagged
\* with its chunk here), with no result (_process_api_chunk and
\* _process_excel_chunk catch their own exceptions and return []), or with
\* an exception, which the loop logs before it continues
ChunkOutcomes == {"results", "empty", "raised"}

\* a loop that returns what it has when a chunk yields nothing
ChunkDone_aborting ==
    /\ cpc = "processing"
    /\ \E outcome \in ChunkOutcomes :
          /\ chunk_log' = Append(chunk_log, outcome)
          /\ crawl_results' = IF outcome = "results"
                              THEN Append(crawl_results, chunk_idx)
                              ELSE crawl_results
          /\ IF chunk_idx < Len(date_chunks) /\ outcome = "results"
             THEN cpc' = "sleeping" /\ UNCHANGED crawl_return
             ELSE cpc' = "returned" /\ crawl_return' = crawl_results'
    /\ UNCHANGED <<start_date, end_date, date_chunks, chunk_idx, chunk_calls>>

\* the chunk's processing call returns or raises; all_results is extended
\* with its results, and the loop sleeps before the next chunk (3 s, 5 s
\* after an exception) or returns all_results after the last
ChunkDone ==
    /\ cpc = "processing"
    /\ \E outcome \in ChunkOutcomes :
          /\ chunk_log' = Append(chunk_log, outcome)
          /\ crawl_results' = IF outcome = "results"
                              THEN Append(crawl_results, chunk_idx)
                              ELSE crawl_results
    /\ IF chunk_idx < Len(date_chunks)
       THEN cpc' = "sleeping" /\ UNCHANGED crawl_return
       ELSE cpc' = "returned" /\ crawl_return' = crawl_results'
    /\ UNCHANGED <<start_date, end_date, date_chunks, chunk_idx, chunk_calls>>

\* asyncio.sleep returns: the next chunk's processing call
ChunkWake ==
    /\ cpc = "sleeping"
    /\ cpc' = "processing"
    /\ chunk_idx' = chunk_idx + 1
    /\ chunk_calls' = chunk_calls + 1
    /\ UNCHANGED <<start_date, end_date, date_chunks, crawl_results,
                   chunk_log, crawl_return>>

(***************************************************************************)
(* The page loop of one (flow, status) pair: _make_api_request of the      *)
(* discovery activity and DirectAPICrawler._make_single_api_request.       *)
(* The server answers with status 200: k_full pages of PageSize items,     *)
(* each with a continuation token, then one page of short_len < PageSize   *)
(* items without a token.  It may answer one request of the activity's     *)
(* loop with an error status instead.                                      *)
(***************************************************************************)
PageSize == 50
MaxPages == 100

MaxFullPages == 100     \* most full pages the server holds

ShortLens == {0, 1, PageSize - 1}

Impls == {"activity", "direct"}

\* state_token = None; page r's token is r
NoToken == 0

MaxFaultPage == 2       \* last request the server may answer with an error

\* the server answers every request with status 200
NoFault == [at |-> 0, status |-> 200]

ServerFaults ==
    {NoFault} \cup [at : 1..MaxFaultPage, status : {429, 401, 500}]

FlowRateLimitMessage == "Rate limit exceeded (429) for flow"
FlowAuthMessage == "Authentication failed: 401"
FlowHttpMessage == "Request failed: HTTP 500"

\* the status of the answer to the request in progress
ServerStatus ==
    IF server_fault.at = page_requests THEN server_fault.status ELSE 200

\* the GDTDiscoveryError _make_api_request raises on a status other than 200
PageLoopError(status) ==
    CASE status = 429 -> FlowRateLimitMessage
      [] status \in {401, 403} -> FlowAuthMessage
      [] OTHER -> FlowHttpMessage

\* items the server holds for the pair
ServerTotal == k_full * PageSize + short_len

\* the body of the server's answer to a request carrying token t
ServerPage(t) ==
    IF t + 1 <= k_full
    THEN [page |-> t + 1, count |-> PageSize, state |-> t + 1]
    ELSE IF t + 1 = k_full + 1
         THEN [page |-> t + 1, count |-> short_len, state |-> NoToken]
         ELSE [page |-> t + 1, count |-> 0, state |-> NoToken]

\* len(all_data["datas"])
RECURSIVE DatasLen(_)
DatasLen(datas) ==
    IF datas = <<>> THEN 0
    ELSE datas[Len(datas)].count + DatasLen(SubSeq(datas, 1, Len(datas) - 1))

\* all_data["total"] after a page was appended
NewTotal(old_total, datas, page_data) ==
    IF impl = "activity" THEN old_total + page_data.count
    ELSE IF has_total THEN ServerTotal
         ELSE DatasLen(datas)

\* a page loop without the safety limit
PageLimitReached_never(p) == FALSE

\* the safety limit of the page loop, tested after page += 1
PageLimitReached(p) == p >= MaxPages

\* the termination test after a page was appended
LastPage(datas, total, page_data) ==
    IF impl = "activity"
    THEN page_data.state = NoToken \/ page_data.count < PageSize
    ELSE \/ DatasLen(datas) >= total
         \/ page_data.count < PageSize
         \/ page_data.state = NoToken

PageIdle ==
    /\ ppc = "idle"
    /\ impl = "activity"
    /\ k_full = 0
    /\ short_len = 0
    /\ has_total = TRUE
    /\ page = 0
    /\ state_token = NoToken
    /\ all_datas = <<>>
    /\ all_total = 0
    /\ page_requests = 0
    /\ server_fault = NoFault
    /\ page_error = None

InitPage ==
    /\ ppc = "called"
    /\ impl \in Impls
    /\ k_full \in 0..MaxFullPages
    /\ short_len \in ShortLens
    /\ has_total \in BOOLEAN
    /\ page = 0
    /\ state_token = NoToken
    /\ all_datas = <<>>
    /\ all_total = 0
    /\ page_requests = 0
    /\ server_fault \in (IF impl = "activity" THEN ServerFaults ELSE {NoFault})
    /\ page_error = None

\* the loop is entered and the first page is requested
PageStart ==
    /\ ppc = "called"
    /\ ppc' = "requesting"
    /\ page_requests' = page_requests + 1
    /\ UNCHANGED <<impl, k_full, short_len, has_total, page, state_token,
                   all_datas, all_total, server_fault, page_error>>

\* the response to the page request arrives; the loop body runs up to the
\* break or up to the sleep before the next page
PageResponse ==
    /\ ppc = "requesting"
    /\ LET page_data == ServerPage(state_token) IN
       IF ServerStatus /= 200
       THEN /\ ppc' = "raised"
            /\ page_error' = PageLoopError(ServerStatus)
            /\ UNCHANGED <<page, state_token, all_datas, all_total>>
       ELSE IF page_data.count = 0
       THEN /\ ppc' = "returned"
            /\ UNCHANGED <<page, state_token, all_datas, all_total, page_error>>
       ELSE LET datas == Append(all_datas, [page |-> page_data.page,
                                            count |-> page_data.count])
                total == NewTotal(all_total, datas, page_data)
            IN  /\ all_datas' = datas
                /\ all_total' = total
                /\ state_token' = page_data.state
                /\ page_error' = page_error
                /\ IF LastPage(datas, total, page_data)
                   THEN ppc' = "returned" /\ UNCHANGED page
                   ELSE /\ page' = page + 1
                        /\ ppc' = IF PageLimitReached(page') THEN "returned"
                                  ELSE "sleeping"
    /\ UNCHANGED <<impl, k_full, short_len, has_total, page_requests,
                   server_fault>>

\* asyncio.sleep(0.1) returns and the next page is requested
PageWake ==
    /\ ppc = "sleeping"
    /\ ppc' = "requesting"
    /\ page_requests' = page_requests + 1
    /\ UNCHANGED <<impl, k_full, short_len, has_total, page, state_token,
                   all_datas, all_total, server_fault, page_error>>

(***************************************************************************)
(* start_task and _generate_workflow_id, against a Temporal server that    *)
(* refuses to start a workflow id which has an open run.                   *)
(***************************************************************************)
MaxRequests == 3        \* start requests handled in a behaviour
MaxClock == 2           \* last millisecond of the clock

TaskTypes == {"gdt_invoice_import"}
Companies == {"0123456789", "9876543210"}
DateRanges == {<<"2024-01-01", "2024-01-31">>, <<"2024-02-01", "2024-02-29">>}

TaskParams ==
    {[company_id |-> c, date_range_start |-> r[1], date_range_end |-> r[2]] :
        c \in Companies, r \in DateRanges}

\* the id's fields, in the order of the f-string, the last being the
\* millisecond timestamp
_generate_workflow_id(task_type, params, timestamp) ==
    <<task_type, params.company_id, params.date_range_start,
      params.date_range_end, timestamp>>

NoRequest == [rpc |-> "new", task_type |-> None, params |-> None,
              workflow_id |-> None]

\* the server has an open run of this workflow id
IsRunning(workflow_id) ==
    \E n \in 1..Len(runs) :
        runs[n].workflow_id = workflow_id /\ runs[n].status = "RUNNING"

StartIdle ==
    /\ now = 0
    /\ reqs = [r \in 1..MaxRequests |-> NoRequest]
    /\ runs = <<>>

\* a request arrives: the workflow id is generated and describe() is awaited
StartTask ==
    \E r \in 1..MaxRequests, task_type \in TaskTypes, params \in TaskParams :
        /\ reqs[r].rpc = "new"
        /\ \A q \in 1..(r - 1) : reqs[q].rpc /= "new"
        /\ reqs' = [reqs EXCEPT ![r] =
               [rpc |-> "describe", task_type |-> task_type,
                params |-> params,
                workflow_id |-> _generate_workflow_id(task_type, params, now)]]
        /\ UNCHANGED <<now, runs>>

\* describe() returns or raises: an open run answers "already running",
\* anything else goes on to start_workflow
DescribeReturns ==
    \E r \in 1..MaxRequests :
        /\ reqs[r].rpc = "describe"
        /\ reqs' = [reqs EXCEPT ![r].rpc =
               IF IsRunning(reqs[r].workflow_id) THEN "responded"
               ELSE "start"]
        /\ UNCHANGED <<now, runs>>

\* start_workflow returns (a new run) or raises (the id has an open run,
\* which start_task turns into a 500)
StartWorkflowReturns ==
    \E r \in 1..MaxRequests :
        /\ reqs[r].rpc = "start"
        /\ IF IsRunning(reqs[r].workflow_id)
           THEN /\ reqs' = [reqs EXCEPT ![r].rpc = "error"]
                /\ UNCHANGED runs
           ELSE /\ reqs' = [reqs EXCEPT ![r].rpc = "responded"]
                /\ runs' = Append(runs, [workflow_id |-> reqs[r].workflow_id,
                                         status |-> "RUNNING"])
        /\ UNCHANGED now

\* a run of the workflow ends
RunCloses ==
    \E n \in 1..Len(runs) :
        /\ runs[n].status = "RUNNING"
        /\ runs' = [runs EXCEPT ![n].status = "COMPLETED"]
        /\ UNCHANGED <<now, reqs>>

\* a millisecond passes
Tick ==
    /\ now < MaxClock
    /\ now' = now + 1
    /\ UNCHANGED <<reqs, runs>>

(***************************************************************************)
(* Cancellation.  The cancel_workflow signal handler logs and raises       *)
(* Exception; an exception raised by a signal handler that is not a        *)
(* Temporal failure fails the workflow task, which the worker retries with *)
(* the same history, so the handler raises again: the run coroutine takes  *)
(* no further step.  cancel_task calls handle.cancel(), which raises       *)
(* CancelledError at the await the run is suspended on; "except Exception" *)
(* does not catch it and the run ends cancelled.  fetch_invoice does not   *)
(* heartbeat, so a fetch in flight is not interrupted in either case.      *)
(***************************************************************************)
RunSuspended == pc \notin {"idle", "done", "cancelled"}

\* the workflow task fails on the signal: no step of the run coroutine
TaskBlocked == cancel_state = "signalled"

\* the cancel_workflow signal is delivered to the running workflow
CancelSignal ==
    /\ RunSuspended
    /\ cancel_state = "none"
    /\ cancel_state' = "signalled"
    /\ UNCHANGED <<pc, scenario, processing_mode, session, invoices, results,
                   total_invoices, completed_invoices, failed_invoices, config,
                   step, i, all_results, tasks, inflight, retry_list, ri,
                   run_result, faults, p1_fetches, p1_outcome, retry_fetches,
                   retry_ok, p1_snapshot, run_params, login_attempts,
                   discovery_calls, fetchVars>>

\* cancel_task: the cancellation request reaches the running workflow
CancelRequest ==
    /\ RunSuspended
    /\ cancel_state = "none"
    /\ cancel_state' = "requested"
    /\ pc' = "cancelled"
    /\ run_result' = [status |-> "cancelled"]
    /\ UNCHANGED <<scenario, processing_mode, session, invoices, results,
                   total_invoices, completed_invoices, failed_invoices, config,
                   step, i, all_results, tasks, inflight, retry_list, ri,
                   faults, p1_fetches, p1_outcome, retry_fetches,
                   retry_ok, p1_snapshot, run_params, login_attempts,
                   discovery_calls, fetchVars>>

(***************************************************************************)
(* discover_invoices (activities/gdt_discovery.py).  The flows are         *)
(* requested in batches; a flow's request returns datas, returns none,     *)
(* raises GDTDiscoveryError (rate limit or another HTTP failure), or fails *)
(* with an unexpected error that fetch_flow_invoices swallows.  flow_delay *)
(* is kept in microseconds, a product being cut to a whole microsecond.    *)
(***************************************************************************)
MaxFlows == 5

InitialFlowBatchSize == 2
MinFlowBatchSize == 1
MaxFlowBatchSize == 3

InitialFlowDelay == 1000000
MinFlowDelay == 500000
MaxFlowDelay == 5000000

\* the result of a flow is an exception whose text names the rate limit
IsRateLimitError(result) ==
    result.kind = "exception" /\ result.error = FlowRateLimitMessage

\* an adaptation that lets the delay grow without limit
AdaptFlowBatching_uncapped(size, delay, batch_rate_limit_errors) ==
    IF batch_rate_limit_errors > 0
    THEN [batch_size |-> Max(MinFlowBatchSize, size - 1),
          delay |-> (delay * 3) \div 2]
    ELSE [batch_size |-> Min(MaxFlowBatchSize, size + 1),
          delay |-> Max(MinFlowDelay, (delay * 9) \div 10)]

\* flow_batch_size and flow_delay after a batch with that many rate-limit
\* errors: max(1, size - 1) and min(5.0, delay * 1.5), or min(3, size + 1)
\* and max(0.5, delay * 0.9)
AdaptFlowBatching(size, delay, batch_rate_limit_errors) ==
    IF batch_rate_limit_errors > 0
    THEN [batch_size |-> Max(MinFlowBatchSize, size - 1),
          delay |-> Min(MaxFlowDelay, (delay * 3) \div 2)]
    ELSE [batch_size |-> Min(MaxFlowBatchSize, size + 1),
          delay |-> Max(MinFlowDelay, (delay * 9) \div 10)]

FlowOutcomes == {"datas", "no_datas", "rate_limit", "http_error", "unexpected"}

\* one element of the gather's result list: the (flow_code, raw_items) tuple
\* fetch_flow_invoices returns, or the GDTDiscoveryError it re-raises; every
\* item of datas is annotated with its flow
fetch_flow_invoices(flow_code, outcome) ==
    CASE outcome = "datas" ->
            [kind |-> "tuple", flow |-> flow_code,
             raw_items |-> <<[flow_type |-> flow_code]>>, error |-> None]
      [] outcome \in {"no_datas", "unexpected"} ->
            [kind |-> "tuple", flow |-> flow_code,
             raw_items |-> <<>>, error |-> None]
      [] outcome = "rate_limit" ->
            [kind |-> "exception", flow |-> flow_code,
             raw_items |-> <<>>, error |-> FlowRateLimitMessage]
      [] OTHER ->
            [kind |-> "exception", flow |-> flow_code,
             raw_items |-> <<>>, error |-> FlowHttpMessage]

\* the positions of flows[i:i + flow_batch_size]
FlowBatch(fl, idx, size) == (idx + 1)..Min(idx + size, Len(fl))

\* the step of range(0, len(flows), flow_batch_size): the value flow_batch_size
\* has when the loop is entered
FlowRangeStep == InitialFlowBatchSize

\* the combination loop: the raw items of the tuples, in order
RECURSIVE AllRawItems(_, _)
AllRawItems(res, k) ==
    IF k = 0 THEN <<>>
    ELSE AllRawItems(res, k - 1)
         \o (IF res[k].kind = "tuple" THEN res[k].raw_items ELSE <<>>)

\* the combination loop: flows[i] for every position i of the results holding
\* an exception
RECURSIVE FailedFlows(_, _, _)
FailedFlows(fl, res, k) ==
    IF k = 0 THEN <<>>
    ELSE LET rest == FailedFlows(fl, res, k - 1)
         IN  IF res[k].kind = "exception" THEN Append(rest, fl[k]) ELSE rest

\* the fields the DiscoveryResult model declares; a keyword argument that is
\* not a field is ignored by the model's constructor
DiscoveryResultFields ==
    {"company_id", "date_range_start", "date_range_end", "flows",
     "invoice_count", "invoices", "raw_invoices"}

DiscoveryResult(kw) ==
    [f \in (DOMAIN kw \cap DiscoveryResultFields) |-> kw[f]]

\* from "results = all_results" to the end of discover_invoices
discover_return(fl, res) ==
    IF Len(res) > Len(fl)
    THEN [kind |-> "raised", error |-> "IndexError"]
    ELSE LET all_raw_items == AllRawItems(res, Len(res))
             failed_flows == FailedFlows(fl, res, Len(res))
         IN  IF /\ Len(all_raw_items) = 0
                /\ Len(failed_flows) /= 0
                /\ Len(failed_flows) = Len(fl)
             THEN [kind |-> "raised",
                   error |-> "All flows failed during discovery"]
             ELSE [kind |-> "returned",
                   value |-> DiscoveryResult(
                       [flows |-> fl,
                        invoice_count |-> Len(all_raw_items),
                        invoices |-> all_raw_items,
                        raw_invoices |-> all_raw_items,
                        failed_flows |-> IF failed_flows = <<>> THEN None
                                         ELSE failed_flows])]

FlowIdle ==
    /\ dpc = "idle"
    /\ flows = <<>>
    /\ flow_i = 0
    /\ flow_batch_size = InitialFlowBatchSize
    /\ flow_delay = InitialFlowDelay
    /\ flow_results = <<>>
    /\ discovery_return = None

\* the next iteration of the loop over range(0, len(flows), step), or the
\* rest of the activity when the range is exhausted
FlowNext(fl, idx, res) ==
    IF idx + FlowRangeStep < Len(fl)
    THEN /\ dpc' = "gather"
         /\ flow_i' = idx + FlowRangeStep
         /\ discovery_return' = discovery_return
    ELSE /\ dpc' = "done"
         /\ flow_i' = idx
         /\ discovery_return' = discover_return(fl, res)

\* the activity is called with a list of flows
DiscoverStart ==
    /\ dpc = "idle"
    /\ \E n \in 0..MaxFlows :
        LET fl == [k \in 1..n |-> k]
        IN  /\ flows' = fl
            /\ flow_results' = <<>>
            /\ flow_batch_size' = InitialFlowBatchSize
            /\ flow_delay' = InitialFlowDelay
            /\ IF n = 0
               THEN /\ dpc' = "done"
                    /\ flow_i' = 0
                    /\ discovery_return' = discover_return(fl, <<>>)
               ELSE /\ dpc' = "gather"
                    /\ flow_i' = 0
                    /\ discovery_return' = None

\* the gather of a flow batch completes; the batch size is adapted
FlowBatchDone ==
    /\ dpc = "gather"
    /\ LET batch == FlowBatch(flows, flow_i, flow_batch_size)
       IN  \E outs \in [batch -> FlowOutcomes] :
            LET batch_results ==
                    [k \in 1..Cardinality(batch) |->
                        fetch_flow_invoices(flows[flow_i + k], outs[flow_i + k])]
                res == flow_results \o batch_results
                batch_rate_limit_errors ==
                    Cardinality({k \in DOMAIN batch_results :
                        IsRateLimitError(batch_results[k])})
                adapted == AdaptFlowBatching(flow_batch_size, flow_delay,
                                             batch_rate_limit_errors)
                size == adapted.batch_size
            IN  /\ flow_results' = res
                /\ flow_batch_size' = size
                /\ flow_delay' = adapted.delay
                /\ UNCHANGED flows
                /\ IF flow_i + size < Len(flows)
                   THEN /\ dpc' = "sleep"
                        /\ UNCHANGED <<flow_i, discovery_return>>
                   ELSE FlowNext(flows, flow_i, res)

\* the sleep between two flow batches ends
FlowSleepWake ==
    /\ dpc = "sleep"
    /\ FlowNext(flows, flow_i, flow_results)
    /\ UNCHANGED <<flows, flow_batch_size, flow_delay, flow_results>>

(***************************************************************************)
(* BatchConfig on its own: constructed for a processing mode, then updated *)
(* by _update_batch_config after every batch, for every batch the loop of  *)
(* _process_invoice_batches can hand it (1 to batch_size results).         *)
(***************************************************************************)
ConfigIdle ==
    /\ cfg_pc = "idle"
    /\ bc = BatchConfig("sequential")
    /\ bc_prev = BatchConfig("sequential")
    /\ bc_batch = <<>>

\* a batch of s successes, r rate-limit failures and o other failures
BatchOf(s, r, o) ==
    [k \in 1..(s + r + o) |->
        IF k <= s THEN Success(k)
        ELSE IF k <= s + r THEN Failure(k, RateLimitMessage)
        ELSE Failure(k, OtherMessage)]

ConfigStart ==
    /\ cfg_pc = "idle"
    /\ cfg_pc' = "loop"
    /\ \E mode \in ProcessingModes :
        /\ bc' = BatchConfig(mode)
        /\ bc_prev' = BatchConfig(mode)
    /\ UNCHANGED bc_batch

ApplyBatch ==
    /\ cfg_pc = "loop"
    /\ UNCHANGED cfg_pc
    /\ \E len \in 1..bc.batch_size :
        \E s \in 0..len :
            \E r \in 0..(len - s) :
                LET batch_results == BatchOf(s, r, len - s - r)
                IN  /\ bc' = _update_batch_config(bc, batch_results)
                    /\ bc_prev' = bc
                    /\ bc_batch' = batch_results

(***************************************************************************)
(* The adaptation of the flow batches on its own: flow_batch_size and      *)
(* flow_delay as discover_invoices initialises them, then adapted after    *)
(* every batch, for every number of rate-limit errors a batch can have.    *)
(***************************************************************************)
MaxFlowGroups == 8      \* flow batches adapted in a behaviour

FlowAdaptIdle ==
    fa = [pc |-> "idle", batch_size |-> InitialFlowBatchSize,
          delay |-> InitialFlowDelay, prev_size |-> InitialFlowBatchSize,
          prev_delay |-> InitialFlowDelay, errors |-> 0, groups |-> 0]

FlowAdaptStart ==
    /\ fa.pc = "idle"
    /\ fa' = [fa EXCEPT !.pc = "loop"]

FlowAdaptStep ==
    /\ fa.pc = "loop"
    /\ fa.groups < MaxFlowGroups
    /\ \E batch_rate_limit_errors \in 0..fa.batch_size :
        LET adapted == AdaptFlowBatching(fa.batch_size, fa.delay,
                                         batch_rate_limit_errors)
        IN  fa' = [pc |-> "loop", batch_size |-> adapted.batch_size,
                   delay |-> adapted.delay, prev_size |-> fa.batch_size,
                   prev_delay |-> fa.delay,
                   errors |-> batch_rate_limit_errors,
                   groups |-> fa.groups + 1]

(***************************************************************************)
(* APIGDTAuthService.authenticate_with_cache (auth_code.py), one call at a *)
(* time.  token_cache is a map from (username, password) to a token with   *)
(* get_token, store_token and invalidate_token; a token is the number of   *)
(* the login that issued it, 0 standing for None.  The outcome of          *)
(* _perform_fresh_authentication is drawn here; its attempts are modelled  *)
(* separately.                                                             *)
(***************************************************************************)
MaxTokens == 3          \* tokens the portal issues in a behaviour

Credentials == {"user1", "user2"}

NoCachedToken == 0

get_token(cache, key) == cache[key]

store_token(cache, key, token) == [cache EXCEPT ![key] = token]

invalidate_token(cache, key) == [cache EXCEPT ![key] = NoCachedToken]

AuthCacheIdle ==
    /\ auth_pc = "idle"
    /\ token_cache = [c \in Credentials |-> NoCachedToken]
    /\ auth_args = [key |-> "user1", force_refresh |-> FALSE]
    /\ cached_token = NoCachedToken
    /\ auth_return = [success |-> FALSE, token |-> NoCachedToken]
    /\ issued = 0
    /\ cache_reads = 0
    /\ probe_ok = {}
    /\ probe_failed = {}

\* the call up to its first await: the cache is read unless force_refresh
AuthCall ==
    /\ auth_pc \in {"idle", "returned"}
    /\ issued < MaxTokens
    /\ \E key \in Credentials, force_refresh \in BOOLEAN :
        /\ auth_args' = [key |-> key, force_refresh |-> force_refresh]
        /\ cache_reads' = IF force_refresh THEN 0 ELSE 1
        /\ cached_token' = IF force_refresh THEN NoCachedToken
                           ELSE get_token(token_cache, key)
        /\ auth_pc' = IF cached_token' /= NoCachedToken THEN "probe" ELSE "fresh"
    /\ probe_ok' = {}
    /\ UNCHANGED <<token_cache, auth_return, issued, probe_failed>>

\* a call that returns the cached token whatever the probe says
ProbeDone_trusting ==
    /\ auth_pc = "probe"
    /\ \E valid \in BOOLEAN :
        /\ probe_ok' = IF valid THEN probe_ok \cup {cached_token} ELSE probe_ok
        /\ probe_failed' = IF valid THEN probe_failed
                           ELSE probe_failed \cup {cached_token}
    /\ auth_pc' = "returned"
    /\ auth_return' = [success |-> TRUE, token |-> cached_token]
    /\ UNCHANGED <<token_cache, auth_args, cached_token, issued, cache_reads>>

\* _validate_token returns: the cached token is returned, or its cache entry
\* is invalidated and the call goes on to the fresh authentication
ProbeDone ==
    /\ auth_pc = "probe"
    /\ \E valid \in BOOLEAN :
        IF valid
        THEN /\ probe_ok' = probe_ok \cup {cached_token}
             /\ auth_pc' = "returned"
             /\ auth_return' = [success |-> TRUE, token |-> cached_token]
             /\ UNCHANGED <<token_cache, probe_failed>>
        ELSE /\ probe_failed' = probe_failed \cup {cached_token}
             /\ token_cache' = invalidate_token(token_cache, auth_args.key)
             /\ auth_pc' = "fresh"
             /\ UNCHANGED <<probe_ok, auth_return>>
    /\ UNCHANGED <<auth_args, cached_token, issued, cache_reads>>

\* _perform_fresh_authentication returns: a new token is stored and
\* returned, or the call returns (False, None)
FreshDone ==
    /\ auth_pc = "fresh"
    /\ auth_pc' = "returned"
    /\ \E success \in BOOLEAN :
        IF success
        THEN /\ issued' = issued + 1
             /\ token_cache' = store_token(token_cache, auth_args.key, issued')
             /\ auth_return' = [success |-> TRUE, token |-> issued']
        ELSE /\ auth_return' = [success |-> FALSE, token |-> NoCachedToken]
             /\ UNCHANGED <<token_cache, issued>>
    /\ UNCHANGED <<auth_args, cached_token, cache_reads, probe_ok,
                   probe_failed>>

(***************************************************************************)
(* APIGDTAuthService._perform_fresh_authentication (auth_code.py): the     *)
(* loop over range(max_retries).  An attempt ends with a CAPTCHA that      *)
(* could not be fetched or could not be solved, with the portal's message  *)
(* for wrong credentials or for a locked account, with a token, with a     *)
(* network error (which _authenticate_with_credentials returns as a        *)
(* failure), with another login failure, or with an exception.             *)
(***************************************************************************)
FreshMaxRetries == 3

\* _fetch_and_solve_captcha returned (False, None, None)
CaptchaFailures == {"captcha_fetch_failed", "captcha_solve_failed"}

AttemptOutcomes ==
    CaptchaFailures \cup
    {"wrong_credentials", "account_locked", "success", "network_error",
     "login_failed", "exception"}

\* an attempt that never ends the loop on the portal's message
AbortsLogin_never(outcome) == FALSE

\* the message names wrong credentials or a locked account: return at once
AbortsLogin(outcome) == outcome \in {"wrong_credentials", "account_locked"}

FreshAuthIdle ==
    /\ pf_pc = "idle"
    /\ pf_attempt = 0
    /\ pf_return = [success |-> FALSE, token |-> None]
    /\ pf_outcomes = <<>>

\* the loop moves on to the next value of range(max_retries), or ends
NextAttempt(sleeps) ==
    IF pf_attempt < FreshMaxRetries - 1
    THEN /\ pf_pc' = IF sleeps THEN "sleep" ELSE "attempt"
         /\ pf_attempt' = IF sleeps THEN pf_attempt ELSE pf_attempt + 1
         /\ UNCHANGED pf_return
    ELSE /\ pf_pc' = "returned"
         /\ pf_return' = [success |-> FALSE, token |-> None]
         /\ UNCHANGED pf_attempt

PerformStart ==
    /\ pf_pc = "idle"
    /\ pf_pc' = "attempt"
    /\ UNCHANGED <<pf_attempt, pf_return, pf_outcomes>>

\* one iteration of the loop, up to its return, its continue or its sleep
PerformAttempt ==
    /\ pf_pc = "attempt"
    /\ \E outcome \in AttemptOutcomes :
        /\ pf_outcomes' = Append(pf_outcomes, outcome)
        /\ IF outcome \in CaptchaFailures THEN NextAttempt(FALSE)
           ELSE IF AbortsLogin(outcome)
           THEN /\ pf_pc' = "returned"
                /\ pf_return' = [success |-> FALSE, token |-> None]
                /\ UNCHANGED pf_attempt
           ELSE IF outcome = "success"
           THEN /\ pf_pc' = "returned"
                /\ pf_return' = [success |-> TRUE, token |-> "Bearer token"]
                /\ UNCHANGED pf_attempt
           ELSE NextAttempt(TRUE)

\* asyncio.sleep(2) returns
PerformWake ==
    /\ pf_pc = "sleep"
    /\ pf_pc' = "attempt"
    /\ pf_attempt' = pf_attempt + 1
    /\ UNCHANGED <<pf_return, pf_outcomes>>

(***************************************************************************)
(* The bulk export (activities/gdt_excel_discovery.py).                    *)
(* _download_excel_files_for_flows downloads one file per (flow, ttxly)    *)
(* pair, sleeping 3 s after each; _download_single_excel_file is the loop  *)
(* over range(MAX_RETRIES) of one file.  Times are whole seconds.          *)
(***************************************************************************)
MAX_RETRIES == 5

BetweenDownloads == 3

NoTtxly == 0

ExportFlows ==
    {"ban_ra_dien_tu", "ban_ra_may_tinh_tien",
     "mua_vao_dien_tu", "mua_vao_may_tinh_tien"}

flow_to_invoice_type(flow) ==
    IF flow \in {"ban_ra_dien_tu", "ban_ra_may_tinh_tien"} THEN "sold"
    ELSE "purchase"

\* ttxly_iterable
TtxlyOf(flow) ==
    IF flow_to_invoice_type(flow) = "purchase" THEN <<5, 6, 8>>
    ELSE <<NoTtxly>>

\* the (flow, ttxly) pairs in the order of the two nested loops
RECURSIVE ExportPairs(_)
ExportPairs(fl) ==
    IF fl = <<>> THEN <<>>
    ELSE [k \in 1..Len(TtxlyOf(Head(fl))) |->
              [flow |-> Head(fl), ttxly |-> TtxlyOf(Head(fl))[k]]]
         \o ExportPairs(Tail(fl))

\* the flows argument: distinct flows, in any order
ExportFlowLists ==
    {fl \in UNION {[1..n -> ExportFlows] : n \in 1..MaxExportFlows} :
        \A a, b \in 1..Len(fl) : a /= b => fl[a] /= fl[b]}

\* what one client.get ends with: a status code, a timeout or another error
DownloadOutcomes == {"200", "429", "401", "500", "timeout", "error"}

\* the sleep before a retry: 2 ** attempt
BackoffWait(n) == 2 ^ n

\* the sleep after a 429: 10 * (attempt + 1)
RateLimitWait(n) == 10 * (n + 1)

ExportIdle ==
    dl = [pc |-> "idle", flows |-> <<>>, pairs |-> <<>>, pair_idx |-> 0,
          attempt |-> 0, requests |-> 0, prev |-> None, waited |-> 0,
          auth_failed |-> FALSE, downloaded_files |-> <<>>]

\* the activity calls _download_excel_files_for_flows; the first file's
\* first attempt sends its request without a sleep
ExportStart ==
    /\ dl.pc = "idle"
    /\ \E fl \in ExportFlowLists :
        dl' = [dl EXCEPT !.pc = "request", !.flows = fl,
                         !.pairs = ExportPairs(fl), !.pair_idx = 1]

\* _download_single_excel_file returned file_path or None
FileEnds(status, file_path) ==
    dl' = [dl EXCEPT !.pc = "between",
                     !.requests = dl.requests + 1,
                     !.prev = status,
                     !.waited = 0,
                     !.auth_failed = dl.auth_failed \/ status = "401",
                     !.downloaded_files =
                         IF file_path THEN Append(dl.downloaded_files, dl.pair_idx)
                         ELSE dl.downloaded_files]

\* client.get(full_url) and what the loop does with its outcome
DownloadRequest ==
    /\ dl.pc = "request"
    /\ \E status \in DownloadOutcomes :
        IF status = "200" THEN FileEnds(status, TRUE)
        ELSE IF status = "429"
        THEN IF dl.attempt < MAX_RETRIES - 1
             THEN dl' = [dl EXCEPT !.pc = "cooldown",
                                   !.requests = dl.requests + 1,
                                   !.prev = status, !.waited = 0]
             ELSE FileEnds(status, FALSE)
        ELSE IF status = "401" THEN FileEnds(status, FALSE)
        ELSE IF dl.attempt = MAX_RETRIES - 1 THEN FileEnds(status, FALSE)
        ELSE dl' = [dl EXCEPT !.pc = "backoff",
                              !.requests = dl.requests + 1,
                              !.prev = status, !.waited = 0,
                              !.attempt = dl.attempt + 1]

\* the sleep of the 429 branch returns: continue with the next attempt
RateLimitWake ==
    /\ dl.pc = "cooldown"
    /\ dl' = [dl EXCEPT !.pc = "backoff",
                        !.waited = dl.waited + RateLimitWait(dl.attempt),
                        !.attempt = dl.attempt + 1]

\* the sleep at the head of an attempt > 0 returns
BackoffWake ==
    /\ dl.pc = "backoff"
    /\ dl' = [dl EXCEPT !.pc = "request",
                        !.waited = dl.waited + BackoffWait(dl.attempt)]

\* the sleep after a file returns: the next pair, or the return of the
\* downloaded files
NextPair ==
    /\ dl.pc = "between"
    /\ IF dl.pair_idx < Len(dl.pairs)
       THEN dl' = [dl EXCEPT !.pc = "request",
                             !.pair_idx = dl.pair_idx + 1,
                             !.attempt = 0, !.requests = 0,
                             !.prev = None,
                             !.waited = BetweenDownloads]
       ELSE dl' = [dl EXCEPT !.pc = "returned",
                             !.waited = BetweenDownloads]

RestIdle == FlowAdaptIdle /\ AuthCacheIdle /\ FreshAuthIdle /\ ExportIdle

WorkflowIdle == InitWorkflow /\ scenario = "any"

otherVars == <<chunkVars, pageVars, startVars, flowVars, cfgVars, restVars>>

Next ==
    \/ StartRun /\ UNCHANGED otherVars
    \/ LoginSucceeds /\ UNCHANGED otherVars
    \/ LoginFails /\ UNCHANGED otherVars
    \/ DiscoverDone /\ UNCHANGED otherVars
    \/ TaskFinish /\ UNCHANGED otherVars
    \/ BatchBarrier /\ UNCHANGED otherVars
    \/ BatchWake /\ UNCHANGED otherVars
    \/ RetryBarrier /\ UNCHANGED otherVars
    \/ RetryWake /\ UNCHANGED otherVars

Init ==
    InitWorkflow /\ scenario = "any" /\ ChunkIdle /\ PageIdle /\ StartIdle
    /\ FlowIdle /\ ConfigIdle /\ RestIdle

Spec == Init /\ [][Next]_vars

InitExample ==
    InitWorkflow /\ scenario = "example" /\ ChunkIdle /\ PageIdle /\ StartIdle
    /\ FlowIdle /\ ConfigIdle /\ RestIdle

\* the example run: parallel mode, login succeeds
NextExample ==
    \/ StartRun /\ processing_mode' = "parallel" /\ UNCHANGED otherVars
    \/ LoginSucceeds /\ UNCHANGED otherVars
    \/ DiscoverDone /\ UNCHANGED otherVars
    \/ TaskFinish /\ UNCHANGED otherVars
    \/ BatchBarrier /\ UNCHANGED otherVars
    \/ BatchWake /\ UNCHANGED otherVars
    \/ RetryBarrier /\ UNCHANGED otherVars

SpecExample == InitExample /\ [][NextExample]_vars

\* every login and discovery outcome, every discovery configuration
NextRun ==
    \/ StartRun /\ UNCHANGED otherVars
    \/ LoginRetry /\ UNCHANGED otherVars
    \/ LoginSucceeds /\ UNCHANGED otherVars
    \/ LoginFails /\ UNCHANGED otherVars
    \/ DiscoverFallback /\ UNCHANGED otherVars
    \/ DiscoverDone /\ UNCHANGED otherVars
    \/ TaskFinish /\ UNCHANGED otherVars
    \/ BatchBarrier /\ UNCHANGED otherVars
    \/ BatchWake /\ UNCHANGED otherVars
    \/ RetryBarrier /\ UNCHANGED otherVars
    \/ RetryWake /\ UNCHANGED otherVars

InitRun ==
    InitWorkflow /\ scenario = "run" /\ ChunkIdle /\ PageIdle /\ StartIdle
    /\ FlowIdle /\ ConfigIdle /\ RestIdle

SpecRun == InitRun /\ [][NextRun]_vars

\* the run with the two ways of cancelling it; the activities and the
\* workflow tasks of a run that is not blocked are eventually executed
NextCancel ==
    \/ ~TaskBlocked /\ StartRun /\ UNCHANGED otherVars
    \/ ~TaskBlocked /\ LoginRetry /\ UNCHANGED otherVars
    \/ ~TaskBlocked /\ LoginSucceeds /\ UNCHANGED otherVars
    \/ ~TaskBlocked /\ LoginFails /\ UNCHANGED otherVars
    \/ ~TaskBlocked /\ DiscoverDone /\ UNCHANGED otherVars
    \/ TaskFinish /\ UNCHANGED otherVars
    \/ ~TaskBlocked /\ BatchBarrier /\ UNCHANGED otherVars
    \/ ~TaskBlocked /\ BatchWake /\ UNCHANGED otherVars
    \/ ~TaskBlocked /\ RetryBarrier /\ UNCHANGED otherVars
    \/ ~TaskBlocked /\ RetryWake /\ UNCHANGED otherVars
    \/ CancelSignal /\ UNCHANGED otherVars
    \/ CancelRequest /\ UNCHANGED otherVars

InitCancel ==
    InitWorkflow /\ scenario = "cancel" /\ ChunkIdle /\ PageIdle /\ StartIdle
    /\ FlowIdle /\ ConfigIdle /\ RestIdle

SpecCancel == InitCancel /\ [][NextCancel]_vars /\ WF_vars(NextCancel)

NextChunk ==
    \/ CrawlStart /\ UNCHANGED <<wfVars, pageVars, startVars, flowVars, cfgVars,
          restVars>>
    \/ ChunkDone /\ UNCHANGED <<wfVars, pageVars, startVars, flowVars, cfgVars,
          restVars>>
    \/ ChunkWake /\ UNCHANGED <<wfVars, pageVars, startVars, flowVars, cfgVars,
          restVars>>

InitSpecChunk ==
    WorkflowIdle /\ InitChunk /\ PageIdle /\ StartIdle
    /\ FlowIdle /\ ConfigIdle /\ RestIdle

SpecChunk == InitSpecChunk /\ [][NextChunk]_vars

NextPage ==
    \/ PageStart /\ UNCHANGED <<wfVars, chunkVars, startVars, flowVars, cfgVars,
          restVars>>
    \/ PageResponse /\ UNCHANGED <<wfVars, chunkVars, startVars, flowVars, cfgVars,
          restVars>>
    \/ PageWake /\ UNCHANGED <<wfVars, chunkVars, startVars, flowVars, cfgVars,
          restVars>>

InitSpecPage ==
    WorkflowIdle /\ ChunkIdle /\ InitPage /\ StartIdle
    /\ FlowIdle /\ ConfigIdle /\ RestIdle

SpecPage == InitSpecPage /\ [][NextPage]_vars

NextStart ==
    \/ StartTask /\ UNCHANGED <<wfVars, chunkVars, pageVars, flowVars, cfgVars,
          restVars>>
    \/ DescribeReturns /\ UNCHANGED <<wfVars, chunkVars, pageVars, flowVars, cfgVars,
          restVars>>
    \/ StartWorkflowReturns /\ UNCHANGED <<wfVars, chunkVars, pageVars, flowVars, cfgVars,
          restVars>>
    \/ RunCloses /\ UNCHANGED <<wfVars, chunkVars, pageVars, flowVars, cfgVars,
          restVars>>
    \/ Tick /\ UNCHANGED <<wfVars, chunkVars, pageVars, flowVars, cfgVars,
          restVars>>

InitSpecStart ==
    WorkflowIdle /\ ChunkIdle /\ PageIdle /\ StartIdle
    /\ FlowIdle /\ ConfigIdle /\ RestIdle

SpecStart == InitSpecStart /\ [][NextStart]_vars

\* the run with the attempts of its fetch activities; the activities and
\* the workflow tasks of the run are eventually executed.  The retry list
\* of a run of FetchInvoices invoices fits in one retry batch, so the sleep
\* between two retry batches never occurs.
NextFetch ==
    \/ StartRun /\ UNCHANGED otherVars
    \/ LoginSucceeds /\ UNCHANGED otherVars
    \/ LoginFails /\ UNCHANGED otherVars
    \/ DiscoverDone /\ UNCHANGED otherVars
    \/ FetchAttemptFails /\ UNCHANGED otherVars
    \/ TaskFinish /\ UNCHANGED otherVars
    \/ BatchBarrier /\ UNCHANGED otherVars
    \/ BatchWake /\ UNCHANGED otherVars
    \/ RetryBarrier /\ UNCHANGED otherVars

InitFetch ==
    InitWorkflow /\ scenario = "fetch" /\ ChunkIdle /\ PageIdle /\ StartIdle
    /\ FlowIdle /\ ConfigIdle /\ RestIdle

SpecFetch == InitFetch /\ [][NextFetch]_vars /\ WF_vars(NextFetch)

NextDiscover ==
    \/ DiscoverStart /\ UNCHANGED <<wfVars, chunkVars, pageVars, startVars, cfgVars,
          restVars>>
    \/ FlowBatchDone /\ UNCHANGED <<wfVars, chunkVars, pageVars, startVars, cfgVars,
          restVars>>
    \/ FlowSleepWake /\ UNCHANGED <<wfVars, chunkVars, pageVars, startVars, cfgVars,
          restVars>>

InitSpecDiscover ==
    WorkflowIdle /\ ChunkIdle /\ PageIdle /\ StartIdle
    /\ FlowIdle /\ ConfigIdle /\ RestIdle

SpecDiscover == InitSpecDiscover /\ [][NextDiscover]_vars

NextConfig ==
    \/ ConfigStart /\ UNCHANGED <<wfVars, chunkVars, pageVars, startVars, flowVars,
          restVars>>
    \/ ApplyBatch /\ UNCHANGED <<wfVars, chunkVars, pageVars, startVars, flowVars,
          restVars>>

InitSpecConfig ==
    WorkflowIdle /\ ChunkIdle /\ PageIdle /\ StartIdle
    /\ FlowIdle /\ ConfigIdle /\ RestIdle

SpecConfig == InitSpecConfig /\ [][NextConfig]_vars

\* the variables of the workflow, the crawler, the activities and BatchConfig
coreVars == <<wfVars, chunkVars, pageVars, startVars, flowVars, cfgVars>>

CoreIdle ==
    WorkflowIdle /\ ChunkIdle /\ PageIdle /\ StartIdle
    /\ FlowIdle /\ ConfigIdle

NextFlowAdapt ==
    \/ FlowAdaptStart /\ UNCHANGED <<coreVars, cacheVars, freshVars, dl>>
    \/ FlowAdaptStep /\ UNCHANGED <<coreVars, cacheVars, freshVars, dl>>

InitSpecFlowAdapt == CoreIdle /\ RestIdle

SpecFlowAdapt == InitSpecFlowAdapt /\ [][NextFlowAdapt]_vars

NextAuthCache ==
    \/ AuthCall /\ UNCHANGED <<coreVars, fa, freshVars, dl>>
    \/ ProbeDone /\ UNCHANGED <<coreVars, fa, freshVars, dl>>
    \/ FreshDone /\ UNCHANGED <<coreVars, fa, freshVars, dl>>

InitSpecAuthCache == CoreIdle /\ RestIdle

SpecAuthCache == InitSpecAuthCache /\ [][NextAuthCache]_vars

NextFreshAuth ==
    \/ PerformStart /\ UNCHANGED <<coreVars, fa, cacheVars, dl>>
    \/ PerformAttempt /\ UNCHANGED <<coreVars, fa, cacheVars, dl>>
    \/ PerformWake /\ UNCHANGED <<coreVars, fa, cacheVars, dl>>

InitSpecFreshAuth == CoreIdle /\ RestIdle

SpecFreshAuth == InitSpecFreshAuth /\ [][NextFreshAuth]_vars

NextExport ==
    \/ ExportStart /\ UNCHANGED <<coreVars, fa, cacheVars, freshVars>>
    \/ DownloadRequest /\ UNCHANGED <<coreVars, fa, cacheVars, freshVars>>
    \/ RateLimitWake /\ UNCHANGED <<coreVars, fa, cacheVars, freshVars>>
    \/ BackoffWake /\ UNCHANGED <<coreVars, fa, cacheVars, freshVars>>
    \/ NextPair /\ UNCHANGED <<coreVars, fa, cacheVars, freshVars>>

InitSpecExport == CoreIdle /\ RestIdle

SpecExport == InitSpecExport /\ [][NextExport]_vars

(***************************************************************************)
(* Claims about the fetch scheduler.                                       *)
(***************************************************************************)
\* _process_invoice_batches has returned (login failure leaves session None)
Phase1Ended ==
    \/ pc \in {"gather2", "sleep2"}
    \/ pc = "done" /\ session /= None

\* C1: the list built by the Phase-1 main pass holds exactly one result per
\* discovered invoice, in the original order: as many results as invoices,
\* and the k-th result is the outcome of fetching the k-th invoice.
C1_OneResultPerInvoice ==
    Phase1Ended =>
        /\ Len(p1_snapshot.results) = Len(invoices)
        /\ \A k \in 1..Len(p1_snapshot.results) :
              k <= Len(invoices) =>
                  p1_snapshot.results[k].invoice_id = invoices[k]

InCurrentGather(t) ==
    \/ pc = "gather1" /\ t.phase = 1 /\ t.offset = i
    \/ pc = "gather2" /\ t.phase = 2 /\ t.offset = ri

\* C2: batches are sequential with a full barrier, in Phase 1 and in the
\* retry pass: every fetch in flight belongs to the batch being gathered (so
\* no batch starts while an earlier one has a task in flight), and every task
\* of that batch that has not finished is still in flight, whatever the
\* other tasks of the batch returned (no task is cancelled or cut short).
C2_FullBarrier ==
    /\ \A t \in inflight : InCurrentGather(t)
    /\ pc \in {"gather1", "gather2"} =>
          \A j \in 1..Len(tasks) :
              ~tasks[j].done =>
                  \E t \in inflight : t.slot = j /\ t.invoice = tasks[j].invoice
    /\ pc \notin {"gather1", "gather2"} => inflight = {}

\* a later batch in flight, one task failed, another one still running
C2_Witness ==
    /\ pc = "gather1"
    /\ i > 0
    /\ \E j \in 1..Len(tasks) : tasks[j].done /\ ~tasks[j].result.success
    /\ \E j \in 1..Len(tasks) : ~tasks[j].done
    /\ inflight /= {}

\* the step in which a Phase-1 gather returns and the config is adapted
AdaptStep == pc = "gather1" /\ all_results' /= all_results

\* C3: batch adaptation is monotone: after a batch with no rate-limit error
\* and at least 80% successes batch_size is not lower than before (it grows
\* by one, up to max_batch_size); after a batch with a rate-limit error it is
\* not higher than before.
C3_AdaptationMonotone ==
    [][AdaptStep =>
        LET stats == _analyze_batch_results(GatherResults(tasks))
        IN  /\ (stats.rate_limit_errors = 0
                  /\ stats.successes * 10 >= Len(tasks) * 8) =>
                  /\ config'.batch_size >= config.batch_size
                  /\ config'.batch_size =
                        Min(config.max_batch_size, config.batch_size + 1)
            /\ stats.rate_limit_errors >= 1 =>
                  config'.batch_size <= config.batch_size]_vars

\* a parallel run whose batch size shrank (8 to 6) and then grew (6 to 7)
C3_Witness ==
    /\ processing_mode = "parallel"
    /\ config.batch_size = DefaultBatchSize - 1
    /\ Len(all_results) > DefaultBatchSize

\* invoices with a failed Phase-1 fetch and a successful Phase-2 fetch
Promoted ==
    {k \in 1..Len(invoices) : FALSE \in p1_outcome[k] /\ k \in retry_ok}

\* C4: retry promotion: at the end of the run, each invoice that failed in
\* Phase 1 and succeeded in the retry pass has moved one unit from failed to
\* completed, exactly once, and its slot, and no other slot, holds the
\* successful result instead of the Phase-1 one.
C4_RetryPromotion ==
    (pc = "done" /\ run_result.status = "completed") =>
        /\ completed_invoices = p1_snapshot.completed + Cardinality(Promoted)
        /\ failed_invoices = p1_snapshot.failed - Cardinality(Promoted)
        /\ \A k \in Promoted : k <= Len(results) /\ results[k] = Success(k)
        /\ \A k \in 1..Len(results) :
              k \notin Promoted => results[k] = p1_snapshot.results[k]

\* C5: the example run: batch_size goes 8, 9, 10 over batches 1 to 3 and is
\* 10 up to batch 6; after batch 6 (three rate-limited) it is 8 and the delay
\* is above its base; the run ends with total 230, completed 230, failed 0.
C5_ExampleRun ==
    /\ (pc = "gather1" /\ BatchOrdinal = 1) => config.batch_size = 8
    /\ (pc = "gather1" /\ BatchOrdinal = 2) => config.batch_size = 9
    /\ (pc = "gather1" /\ BatchOrdinal \in 3..6) => config.batch_size = 10
    /\ (pc = "sleep1" /\ BatchOrdinal = 6) =>
          config.batch_size = 8 /\ config.delay > config.base_delay
    /\ pc = "done" =>
          /\ run_result.status = "completed"
          /\ run_result.total_invoices = ExampleInvoices
          /\ run_result.completed_invoices = ExampleInvoices
          /\ run_result.failed_invoices = 0

\* the counts and the rate a report must carry (the progress query names the
\* rate "percentage")
ReportsAll(d) ==
    /\ {"total_invoices", "completed_invoices", "failed_invoices"}
          \subseteq DOMAIN d
    /\ {"success_rate", "percentage"} \cap DOMAIN d /= {}

\* C10: whatever the outcome of the run, its final result and every answer
\* of the progress query report total, completed, failed and the success rate.
C10_AlwaysReported ==
    /\ ReportsAll(get_progress)
    /\ pc = "done" => ReportsAll(run_result)

(***************************************************************************)
(* Claims about the date-range chunker.                                    *)
(***************************************************************************)
\* the day after d
NextDay(d) ==
    IF d.day < last_day_of_month(d.year, d.month)
    THEN Date(d.year, d.month, d.day + 1)
    ELSE IF d.month = 12 THEN Date(d.year + 1, 1, 1)
         ELSE Date(d.year, d.month + 1, 1)

Tiles(chunks, start, end) ==
    /\ Len(chunks) >= 1
    /\ chunks[1][1] = start
    /\ chunks[Len(chunks)][2] = end
    /\ \A k \in 1..(Len(chunks) - 1) : chunks[k + 1][1] = NextDay(chunks[k][2])
    /\ \A k \in 1..Len(chunks) :
          /\ DateLeq(chunks[k][1], chunks[k][2])
          /\ chunks[k][1].year = chunks[k][2].year
          /\ chunks[k][1].month = chunks[k][2].month

\* C6: for start <= end the chunks tile [start, end]: the first starts at
\* start, the last ends at end, each next one starts the day after the
\* previous one ends, and each chunk lies within one calendar month.
C6_ChunksTileRange ==
    (cpc /= "called" /\ DateLeq(start_date, end_date)) =>
        Tiles(date_chunks, start_date, end_date)

\* a range split across the December to January boundary
C6_Witness ==
    /\ cpc = "returned"
    /\ Len(date_chunks) >= 3
    /\ \E k \in 1..(Len(date_chunks) - 1) :
          /\ date_chunks[k][2] = Date(2023, 12, 31)
          /\ date_chunks[k + 1][1] = Date(2024, 1, 1)

\* C7: for start > end the chunker returns the empty list (no exception),
\* and the crawl built on it processes no chunk and returns an empty list.
C7_EmptyWhenReversed ==
    (cpc /= "called" /\ DateLess(end_date, start_date)) =>
        /\ date_chunks = <<>>
        /\ cpc = "returned"
        /\ chunk_calls = 0
        /\ crawl_return = <<>>

\* a crawl over a reversed range has returned
C7_Witness ==
    /\ cpc = "returned"
    /\ DateLess(end_date, start_date)
    /\ start_date.month /= end_date.month

(***************************************************************************)
(* Claims about pagination and about the start of a run.                   *)
(***************************************************************************)
\* entries of all_data["datas"] that came from the server's page r
PageCopies(r) ==
    Cardinality({n \in 1..Len(all_datas) : all_datas[n].page = r})

\* C8: against k full pages with a token followed by one short page without
\* a token, the page loop issues exactly k + 1 requests and the aggregated
\* list holds every item of every page exactly once.
C8_PaginationExact ==
    ppc = "returned" =>
        /\ page_requests = k_full + 1
        /\ \A r \in 1..k_full : PageCopies(r) = 1
        /\ short_len > 0 => PageCopies(k_full + 1) = 1
        /\ DatasLen(all_datas) = ServerTotal

\* C9: two start requests with the same (task_type, company_id,
\* date_range_start, date_range_end) whose runs are both still open were
\* answered with the same workflow id, and the server holds one open run
\* for them, not two.
C9_IdempotentStart ==
    /\ \A a, b \in 1..MaxRequests :
          ( /\ reqs[a].rpc = "responded"
            /\ reqs[b].rpc = "responded"
            /\ reqs[a].task_type = reqs[b].task_type
            /\ reqs[a].params = reqs[b].params
            /\ IsRunning(reqs[a].workflow_id)
            /\ IsRunning(reqs[b].workflow_id) )
          => reqs[a].workflow_id = reqs[b].workflow_id
    /\ \A m, n \in 1..Len(runs) :
          ( /\ runs[m].status = "RUNNING"
            /\ runs[n].status = "RUNNING"
            /\ SubSeq(runs[m].workflow_id, 1, 4)
                   = SubSeq(runs[n].workflow_id, 1, 4) )
          => m = n

(***************************************************************************)
(* Claims about the outcome of a run, its phases, login and discovery.     *)
(***************************************************************************)
\* the run has ended without a session: the login activity failed for good
LoginFailed == pc = "done" /\ session = None

\* the discovery the run ended with raised: every flow failed
DiscoveryFailed ==
    /\ discovery_calls /= <<>>
    /\ discovery_calls[Len(discovery_calls)].outcome
          \in {"raised", "auth_expired"}

\* C11: a run ends with status failed and an error message exactly when the
\* login failed for good or discovery failed for all flows; in particular a
\* discovery that failed for all flows never ends in status completed.
C11_FailureStatus ==
    pc = "done" =>
        /\ run_result.status = "failed" <=> (LoginFailed \/ DiscoveryFailed)
        /\ run_result.status = "failed" => "error" \in DOMAIN run_result

\* Idle, Authenticating, Discovering, Fetching, Completed | Failed
PhaseRank(p) ==
    CASE p = "idle" -> 0
      [] p = "login" -> 1
      [] p \in {"discover", "fallback"} -> 2
      [] p \in {"gather1", "sleep1", "gather2", "sleep2"} -> 3
      [] p = "done" -> 4

\* the invoice fetches launched so far, over both passes
FetchesLaunched(p1, p2) ==
    {k \in DOMAIN p1 : p1[k] > 0} \cup {k \in DOMAIN p2 : p2[k] > 0}

\* C12: the run follows the phase order: it never moves back to an earlier
\* phase; a discovery activity starts only with a session; the first invoice
\* fetch starts only when every discovery activity has returned; and the
\* completed result is built only when the retry pass has ended, with no
\* fetch in flight and every invoice of the retry list fetched again.
C12_PhaseOrder ==
    [][/\ PhaseRank(pc') >= PhaseRank(pc)
       /\ Len(discovery_calls') > Len(discovery_calls) => session' /= None
       /\ (FetchesLaunched(p1_fetches, retry_fetches) = {}
             /\ FetchesLaunched(p1_fetches', retry_fetches') /= {}) =>
             /\ discovery_calls' /= <<>>
             /\ \A c \in 1..Len(discovery_calls') :
                   discovery_calls'[c].outcome /= "running"
       /\ (run_result.status = "running"
             /\ run_result'.status = "completed") =>
             /\ inflight' = {}
             /\ session' /= None
             /\ \A k \in 1..Len(retry_list') :
                   retry_fetches'[retry_list'[k]] >= 1]_vars

\* a completed run that went through the Excel fallback and the retry pass
C12_Witness ==
    /\ pc = "done"
    /\ run_result.status = "completed"
    /\ Len(discovery_calls) = 2
    /\ retry_list /= <<>>
    /\ retry_ok /= {}

\* C13: when the login fails for good the run ends at once with status
\* failed, and no discovery and no fetch activity was started in it; the
\* login activity is attempted at most 5 times, and never again once the run
\* has failed.
C13_LoginFailure ==
    /\ [](/\ login_attempts <= 5
          /\ LoginFailed =>
                /\ run_result.status = "failed"
                /\ discovery_calls = <<>>
                /\ inflight = {}
                /\ FetchesLaunched(p1_fetches, retry_fetches) = {})
    /\ [][/\ (pc = "login" /\ session' = None /\ pc' /= "login") =>
                pc' = "done"
          /\ pc = "done" => login_attempts' = login_attempts]_vars

\* a run failed by a retryable login error on its fifth attempt
C13_Witness ==
    /\ LoginFailed
    /\ login_attempts = 5
    /\ run_result.error = "Rate limit exceeded (429)"

\* the other discovery method
Alternate(method) == IF method = "api" THEN "excel" ELSE "api"

\* C16: the configured method runs first; when it raised or returned no
\* invoice and the fallback is enabled, the other method runs once for the
\* same date range; with the fallback disabled the other method never runs;
\* there are never more than two discovery executions.
C16_FallbackPolicy ==
    (PhaseRank(pc) >= 3 /\ discovery_calls /= <<>>) =>
        LET first == discovery_calls[1] IN
        /\ first.method = run_params.discovery_method
        /\ Len(discovery_calls) <= 2
        /\ ~run_params.excel_fallback => Len(discovery_calls) = 1
        /\ (run_params.excel_fallback /\ first.outcome /= "invoices") =>
              /\ Len(discovery_calls) = 2
              /\ discovery_calls[2].method = Alternate(first.method)
              /\ discovery_calls[2].date_range_start = first.date_range_start
              /\ discovery_calls[2].date_range_end = first.date_range_end

\* C17: every discovery activity of a run is given a date window that lies
\* within one calendar month.
C17_MonthlyWindows ==
    \A c \in 1..Len(discovery_calls) :
        /\ discovery_calls[c].date_range_start.year
              = discovery_calls[c].date_range_end.year
        /\ discovery_calls[c].date_range_start.month
              = discovery_calls[c].date_range_end.month

\* launches of activities: login attempts, discovery calls, invoice fetches
Launches == <<login_attempts, discovery_calls, p1_fetches, retry_fetches>>

\* C14: once a cancel has been delivered to a running import no activity is
\* started any more; delivering it removes no fetch from flight; and the run
\* goes on to abort.
C14_CooperativeCancel ==
    /\ [][/\ cancel_state' /= "none" => Launches' = Launches
          /\ cancel_state' /= cancel_state => inflight' = inflight]_vars
    /\ (cancel_state /= "none") ~> (pc = "cancelled")

(***************************************************************************)
(* Claims about discover_invoices.                                         *)
(***************************************************************************)
\* the flows whose request raised GDTDiscoveryError
ErroredFlows ==
    {flow_results[k].flow : k \in {n \in DOMAIN flow_results :
                                      flow_results[n].kind = "exception"}}

\* the items of the flows whose request returned datas
SuccessfulItems ==
    {[flow_type |-> flow_results[k].flow] :
        k \in {n \in DOMAIN flow_results :
                  /\ flow_results[n].kind = "tuple"
                  /\ flow_results[n].raw_items /= <<>>}}

SeqRange(q) == {q[k] : k \in DOMAIN q}

\* C15: discover_invoices over a non-empty list of flows raises exactly when
\* every requested flow failed; otherwise it returns the invoices of the
\* flows that succeeded and, when some flow failed, a non-empty failed_flows
\* naming exactly the flows that failed.
C15_PartialFailure ==
    (dpc = "done" /\ flows /= <<>>) =>
        /\ discovery_return.kind = "raised" <=> ErroredFlows = SeqRange(flows)
        /\ discovery_return.kind = "returned" =>
            /\ SeqRange(discovery_return.value.raw_invoices) = SuccessfulItems
            /\ ErroredFlows /= {} =>
                /\ "failed_flows" \in DOMAIN discovery_return.value
                /\ discovery_return.value.failed_flows /= <<>>
                /\ SeqRange(discovery_return.value.failed_flows) = ErroredFlows

(***************************************************************************)
(* Claims about the progress counters and about BatchConfig.               *)
(***************************************************************************)
\* the slots of self.results a step replaces
ReplacedSlots ==
    {k \in DOMAIN results : k \in DOMAIN results' /\ results'[k] /= results[k]}

\* C18: the completed counter never decreases; the failed counter decreases
\* only in the step that applies the results of a retry batch, by one for
\* each invoice promoted there (one unit moves to the completed counter and
\* one slot of the results is replaced); the failed counter is never negative.
C18_CounterMoves ==
    /\ [](failed_invoices >= 0)
    /\ [][/\ completed_invoices' >= completed_invoices
          /\ failed_invoices' < failed_invoices =>
                /\ pc = "gather2"
                /\ failed_invoices - failed_invoices'
                      = completed_invoices' - completed_invoices
                /\ failed_invoices - failed_invoices'
                      = Cardinality(ReplacedSlots)]_vars

\* a finished run that promoted two invoices and left one failed
C18_Witness ==
    /\ pc = "done"
    /\ Cardinality(retry_ok) >= 2
    /\ failed_invoices >= 1
    /\ completed_invoices >= 2

\* the outcome counts of the last batch handed to _update_batch_config
BatchSuccesses == Cardinality({k \in DOMAIN bc_batch : bc_batch[k].success})
BatchRateLimited ==
    Cardinality({k \in DOMAIN bc_batch : bc_batch[k].error = RateLimitMessage})

\* C19: after any sequence of batches batch_size lies between min_batch_size
\* and max_batch_size and delay between base_delay and 5; after a batch with
\* r >= 1 rate-limit failures delay = min(5, base_delay * (1 + r)) and
\* batch_size = max(min_batch_size, previous - 2); after a batch with no
\* rate-limit failure and at least 80% successes batch_size =
\* min(max_batch_size, previous + 1) and delay = base_delay.
C19_ConfigBounds ==
    /\ bc.min_batch_size <= bc.batch_size
    /\ bc.batch_size <= bc.max_batch_size
    /\ bc.base_delay <= bc.delay
    /\ bc.delay <= 5
    /\ bc_batch /= <<>> =>
        /\ BatchRateLimited >= 1 =>
            /\ bc.delay = Min(5, bc_prev.base_delay * (1 + BatchRateLimited))
            /\ bc.batch_size = Max(bc_prev.min_batch_size, bc_prev.batch_size - 2)
        /\ (BatchRateLimited = 0 /\ BatchSuccesses * 10 >= Len(bc_batch) * 8) =>
            /\ bc.batch_size = Min(bc_prev.max_batch_size, bc_prev.batch_size + 1)
            /\ bc.delay = bc.base_delay

\* a batch with five rate-limit failures capped the delay at 5 (1 * 6 without
\* the cap) and took the batch size from 5 to the floor of 3
C19_Witness ==
    /\ BatchRateLimited = 5
    /\ bc.base_delay = 1
    /\ bc.delay = 5
    /\ bc_prev.batch_size = 5
    /\ bc.batch_size = 3

\* a batch with no rate-limit failure and fewer than 80% successes
PoorBatch ==
    /\ bc_batch /= <<>>
    /\ BatchRateLimited = 0
    /\ BatchSuccesses * 10 < Len(bc_batch) * 8

\* C20 as stated: a batch with no rate-limit failure and fewer than 80%
\* successes leaves the whole BatchConfig, delay included, as it was.
C20_ConfigUnchanged == PoorBatch => bc = bc_prev

\* C20: a batch with no rate-limit failure and fewer than 80% successes
\* leaves batch_size, its limits and base_delay as they were and sets delay
\* to base_delay, whatever the delay was before.
C20_SizeKeptDelayReset ==
    PoorBatch =>
        /\ bc.batch_size = bc_prev.batch_size
        /\ bc.min_batch_size = bc_prev.min_batch_size
        /\ bc.max_batch_size = bc_prev.max_batch_size
        /\ bc.base_delay = bc_prev.base_delay
        /\ bc.delay = bc_prev.base_delay

\* such a batch after a rate-limited one: the raised delay is back at base
C20_Witness ==
    /\ PoorBatch
    /\ bc_prev.delay > bc_prev.base_delay
    /\ bc.delay = bc.base_delay
    /\ bc.batch_size = bc_prev.batch_size

(***************************************************************************)
(* Claims about the batches of the two passes.                             *)
(***************************************************************************)
\* C21: the Phase-1 batches partition the invoice list whatever adaptation
\* occurs: when Phase 1 has ended every discovered invoice has been launched
\* in exactly one Phase-1 batch (none skipped, none fetched twice).
C21_BatchesPartition ==
    Phase1Ended =>
        \A k \in 1..Len(invoices) : p1_fetches[k] = 1

\* the entries of a result list with the given success flag
EntriesWith(res, flag) == {k \in DOMAIN res : res[k].success = flag}

\* C22: aggregate conservation: at every point of a run completed and failed
\* are non-negative and completed + failed <= total; when Phase 1 has ended,
\* and again when the retry pass has ended, completed + failed = total,
\* completed is the number of successful entries of the result list and
\* failed the number of unsuccessful ones.
C22_Conservation ==
    /\ completed_invoices >= 0
    /\ failed_invoices >= 0
    /\ completed_invoices + failed_invoices <= total_invoices
    /\ Phase1Ended =>
        /\ p1_snapshot.completed + p1_snapshot.failed = total_invoices
        /\ p1_snapshot.completed
              = Cardinality(EntriesWith(p1_snapshot.results, TRUE))
        /\ p1_snapshot.failed
              = Cardinality(EntriesWith(p1_snapshot.results, FALSE))
    /\ (pc = "done" /\ session /= None) =>
        /\ completed_invoices + failed_invoices = total_invoices
        /\ completed_invoices = Cardinality(EntriesWith(results, TRUE))
        /\ failed_invoices = Cardinality(EntriesWith(results, FALSE))

\* C23: the retry pass fetches exactly the invoices whose Phase-1 result was
\* not successful, each at most once: an invoice is retried only if its
\* Phase-1 fetch failed, every such invoice has been retried when the run
\* completes, no invoice is launched more than twice in a run, and when
\* Phase 1 left no failure the retry pass launches nothing and changes no
\* counter.
C23_RetryExactlyFailed ==
    /\ \A k \in DOMAIN retry_fetches :
        /\ retry_fetches[k] <= 1
        /\ retry_fetches[k] = 1 => p1_outcome[k] = {FALSE}
        /\ p1_fetches[k] + retry_fetches[k] <= 2
    /\ (pc = "done" /\ run_result.status = "completed") =>
        \A k \in DOMAIN retry_fetches :
            FALSE \in p1_outcome[k] => retry_fetches[k] = 1
    /\ (Phase1Ended /\ p1_snapshot.failed = 0) =>
        /\ \A k \in DOMAIN retry_fetches : retry_fetches[k] = 0
        /\ completed_invoices = p1_snapshot.completed
        /\ failed_invoices = 0

\* C24: the retry pass uses a fixed configuration: every retry batch is cut
\* with the same batch size whatever the outcomes so far, that batch size is
\* strictly smaller than min_batch_size of the mode in use, and the retry
\* delay is longer than the Phase-1 base delay.
C24_FixedRetryConfig ==
    pc \in {"gather2", "sleep2"} =>
        /\ Len(tasks) = Min(RetryBatchSize, Len(retry_list) - ri)
        /\ RetryBatchSize < config.min_batch_size
        /\ RetryDelay > config.base_delay

\* the step in which the gather of a retry batch returns and its results
\* are applied
RetryApplied == pc = "gather2" /\ pc' /= "gather2"

\* the tasks of the retry batch being gathered that returned a success
RetrySucceeded == {j \in 1..Len(tasks) : tasks[j].result.success}

\* C25: a retry that fails again changes nothing: when the results of a retry
\* batch are applied, a slot of the result list changes only if it is the
\* slot of an invoice of the batch whose retry succeeded, the counters move
\* by at most one unit per successful retry, from failed to completed, and a
\* batch without a successful retry leaves results and counters as they were.
C25_FailedRetryFrame ==
    [][RetryApplied =>
        /\ \A k \in DOMAIN results :
              results'[k] /= results[k] =>
                  \E j \in RetrySucceeded : tasks[j].invoice = invoices[k]
        /\ completed_invoices' - completed_invoices
              = failed_invoices - failed_invoices'
        /\ completed_invoices' - completed_invoices
              <= Cardinality(RetrySucceeded)
        /\ completed_invoices' >= completed_invoices
        /\ RetrySucceeded = {} =>
              /\ results' = results
              /\ completed_invoices' = completed_invoices
              /\ failed_invoices' = failed_invoices]_vars

\* a finished run with one retry that failed again and one that succeeded
C25_Witness ==
    /\ pc = "done"
    /\ retry_ok /= {}
    /\ \E k \in DOMAIN retry_fetches : retry_fetches[k] = 1 /\ k \notin retry_ok
    /\ failed_invoices >= 1

\* C26: between two consecutive Phase-1 batches the scheduler sleeps (with
\* the config adapted from the earlier batch, which the sleep leaves as it
\* is), and it does not sleep after the last batch: the step that ends a
\* batch never launches the next batch itself, and a sleep is always followed
\* by a batch.
C26_SleepBetweenBatches ==
    [][/\ (pc = "gather1" /\ pc' = "gather1") => i' = i
       /\ pc = "sleep1" => (pc' \in {"sleep1", "gather1"} /\ config' = config)
      ]_vars

----------------------------------------------------------------------------
\* Claims about one fetch and its attempts (SpecFetch)

\* the invoices of the run whose Phase-1 result carries the message msg
Phase1Failed(msg) ==
    {k \in DOMAIN p1_snapshot.results :
        /\ ~p1_snapshot.results[k].success
        /\ p1_snapshot.results[k].error = msg}

\* C27: an invoice that lacks a required identifying field fails with the
\* missing-parameters failure without any network request, and it is never
\* fetched again: no further attempt of the activity and no fetch in the
\* retry pass.
C27_MissingNeverRetried ==
    \A k \in missing :
        /\ net_requests[k] = 0
        /\ \A t \in inflight : t.invoice = invoices[k] => AttemptsOf(t) = 0
        /\ Phase1Ended => k \in Phase1Failed(MissingMessage)
        /\ retry_fetches[invoices[k]] = 0

\* C28: a 401 or 403 answer ends the fetch at once with the authentication
\* failure, which differs from the failure of an exhausted fetch, and the
\* invoice is not fetched again with the same session in the retry pass.
C28_AuthNotRefetched ==
    /\ AuthMessage \notin {RateLimitMessage, OtherMessage, MissingMessage}
    /\ Phase1Ended =>
          \A k \in Phase1Failed(AuthMessage) : retry_fetches[invoices[k]] = 0

\* the step of the run that ends the join of a batch
GatherEnds == pc \in {"gather1", "gather2"} /\ pc' /= pc

\* C29: every launch of a fetch terminates.  A fetch makes at most
\* FetchMaxAttempts attempts, each finished fetch hands the join a result that
\* carries the id of its invoice, the join of a batch ends only with one
\* result for every launched invoice, and every join does end.
C29_FetchTerminates ==
    /\ [](\A t \in inflight : AttemptsOf(t) + 1 <= FetchMaxAttempts)
    /\ [](\A j \in DOMAIN tasks :
            tasks[j].done => tasks[j].result.invoice_id = tasks[j].invoice)
    /\ [][GatherEnds => \A j \in DOMAIN tasks : tasks[j].done]_vars
    /\ (pc = "gather1" ~> pc /= "gather1")
    /\ (pc = "gather2" ~> pc /= "gather2")

\* a finished run with an invoice whose two launches both used up their
\* attempts on rate-limit answers
C29_Witness ==
    /\ pc = "done"
    /\ run_result.status = "completed"
    /\ \E k \in DOMAIN results :
        /\ results[k] = Failure(invoices[k], RateLimitMessage)
        /\ retry_fetches[invoices[k]] = 1
        /\ net_requests[k] = 2 * FetchMaxAttempts

----------------------------------------------------------------------------
\* Claims about the end of the page loop (SpecPage)

\* the answer to the request in progress shows one of the three signs of the
\* last page: no continuation token, fewer items than a full page, or as many
\* items collected as the total the server reports
StopCondition ==
    LET page_data == ServerPage(state_token) IN
      /\ ServerStatus = 200
      /\ \/ page_data.state = NoToken
         \/ page_data.count < PageSize
         \/ has_total /\ DatasLen(all_datas) + page_data.count >= ServerTotal

\* C30: the page loop stops at the first answer that has no continuation
\* token, or is shorter than the page size, or brings the collected items up
\* to the total reported by the server; once stopped, no page is requested.
C30_PaginationStops ==
    [][/\ (ppc = "requesting" /\ StopCondition) => ppc' = "returned"
       /\ ppc = "returned" => page_requests' = page_requests]_vars

\* C31: the page loop always terminates and never issues more than MaxPages
\* requests: every step of the loop either ends it or moves on to a later
\* request or page, of which there are at most MaxPages.  Against a server
\* whose first MaxPages answers are all full pages with a fresh token, the
\* loop that reads all of them stops after MaxPages requests and returns the
\* items of the pages it collected.
C31_PaginationBounded ==
    /\ [](page_requests <= MaxPages /\ page <= MaxPages)
    /\ [][ppc' \notin {"returned", "raised"} =>
             page_requests' + page' > page_requests + page]_vars
    /\ []((ppc = "returned" /\ k_full >= MaxPages) =>
            /\ Len(all_datas) = page_requests
            /\ \A r \in 1..Len(all_datas) :
                  all_datas[r] = [page |-> r, count |-> PageSize])

\* the loop was stopped by the limit while the server still sent a token
C31_Witness ==
    /\ ppc = "returned"
    /\ k_full >= MaxPages
    /\ page_requests = MaxPages
    /\ state_token /= NoToken
    /\ Len(all_datas) = MaxPages

----------------------------------------------------------------------------
\* Claims about the errors and the flow batches of API discovery

\* the page loop of the activity raises on the first 429, 401 or 403 answer:
\* it neither sleeps nor sends another request, and the error it raises
\* tells a rate limit from an expired session (SpecPage)
PageLoopRaisesAtOnce ==
    /\ [][(ppc = "requesting" /\ ServerStatus /= 200) =>
             /\ ppc' = "raised"
             /\ page_error' = PageLoopError(ServerStatus)]_vars
    /\ [][ppc = "raised" => page_requests' = page_requests]_vars
    /\ [](ppc = "raised" => page_requests = server_fault.at)
    /\ PageLoopError(429) \notin {PageLoopError(401), PageLoopError(500)}

\* failed_flows of the combination loop, which raises IndexError when there
\* are more results than flows
RecordedFailed ==
    IF Len(flow_results) > Len(flows) THEN {}
    ELSE SeqRange(FailedFlows(flows, flow_results, Len(flow_results)))

\* the results the step adds to all_results
NewFlowResults ==
    {flow_results'[n] : n \in (DOMAIN flow_results') \ (DOMAIN flow_results)}

\* C32: a rate-limit error of a flow reaches the analysis of its flow batch,
\* where it is counted (the batch size shrinks, the delay does not fall), and
\* when the activity ends the flow is in failed_flows.
C32_RateLimitSurfaced ==
    /\ [][(\E r \in NewFlowResults : IsRateLimitError(r)) =>
             /\ flow_batch_size' = Max(MinFlowBatchSize, flow_batch_size - 1)
             /\ flow_delay' >= flow_delay]_vars
    /\ [](dpc = "done" =>
             \A n \in DOMAIN flow_results :
                 IsRateLimitError(flow_results[n]) =>
                     flow_results[n].flow \in RecordedFailed)

\* C34: after a flow batch with a rate-limit error the batch size does not
\* increase (one less, at least 1) and the delay does not decrease (at most
\* 5.0); after a batch without one the batch size does not decrease (one
\* more, at most 3) and the delay does not increase (at least 0.5); the
\* batch size is always within 1..3 and the delay within 0.5..5.0.
C34_FlowAdaptation ==
    /\ fa.batch_size \in MinFlowBatchSize..MaxFlowBatchSize
    /\ fa.delay \in MinFlowDelay..MaxFlowDelay
    /\ (fa.groups > 0 /\ fa.errors > 0) =>
          /\ fa.batch_size = Max(MinFlowBatchSize, fa.prev_size - 1)
          /\ fa.batch_size <= fa.prev_size
          /\ fa.delay >= fa.prev_delay
    /\ (fa.groups > 0 /\ fa.errors = 0) =>
          /\ fa.batch_size = Min(MaxFlowBatchSize, fa.prev_size + 1)
          /\ fa.batch_size >= fa.prev_size
          /\ fa.delay <= fa.prev_delay

\* a rate-limited batch at the smallest size whose delay was cut at the cap
C34_Witness ==
    /\ fa.errors > 0
    /\ fa.prev_size = MinFlowBatchSize
    /\ fa.batch_size = MinFlowBatchSize
    /\ fa.prev_delay < MaxFlowDelay
    /\ fa.delay = MaxFlowDelay
    /\ (fa.prev_delay * 3) \div 2 > MaxFlowDelay

\* the results of the queries of flow f
QueriesOf(f) == {n \in DOMAIN flow_results : flow_results[n].flow = f}

\* C35: when API discovery ends every requested flow was queried exactly
\* once, the combination loop attributed every result to its own flow (a
\* flow is in failed_flows exactly if its query raised), and no flow is left
\* without a result.
C35_FlowsPartitioned ==
    (dpc = "done" /\ flows /= <<>>) =>
        /\ Len(flow_results) = Len(flows)
        /\ \A k \in DOMAIN flows :
              /\ Cardinality(QueriesOf(flows[k])) = 1
              /\ flows[k] \in RecordedFailed <=> flows[k] \in ErroredFlows

\* the step ends a discovery call whose activity failed on a 401 or 403
AuthExpiredNow ==
    \E c \in DOMAIN discovery_calls :
        /\ discovery_calls[c].outcome = "running"
        /\ discovery_calls'[c].outcome = "auth_expired"

\* C33: when a discovery call ends on a 401 or 403 answer the run goes back
\* to the login, and it starts no discovery call before a new login has
\* produced a session.
C33_ReauthAfterExpiry ==
    [][AuthExpiredNow =>
          /\ pc' = "login"
          /\ Len(discovery_calls') = Len(discovery_calls)]_vars

----------------------------------------------------------------------------
\* Claims about APIGDTAuthService

\* the call performed a fresh authentication that succeeded
FreshSucceeded ==
    /\ auth_pc = "returned"
    /\ auth_return.success
    /\ auth_return.token /= cached_token

\* C36: authenticate_with_cache returns a cached token only if the probe
\* succeeded for that token in the same call; after a failed probe the cache
\* entry of the credentials is gone before the fresh authentication starts;
\* with force_refresh the cache is not read; after a fresh authentication
\* that succeeded the cache holds the new token, and after one that failed
\* it holds no token whose probe failed.
C36_CacheValidated ==
    /\ (auth_pc = "returned" /\ auth_return.success
            /\ auth_return.token = cached_token) =>
          cached_token \in probe_ok
    /\ (auth_pc = "fresh" /\ cached_token /= NoCachedToken) =>
          /\ cached_token \in probe_failed
          /\ get_token(token_cache, auth_args.key) = NoCachedToken
    /\ (auth_pc /= "idle" /\ auth_args.force_refresh) =>
          /\ cache_reads = 0
          /\ cached_token = NoCachedToken
    /\ FreshSucceeded =>
          /\ get_token(token_cache, auth_args.key) = auth_return.token
          /\ auth_return.token = issued
    /\ (auth_pc = "returned" /\ ~auth_return.success) =>
          /\ auth_return.token = NoCachedToken
          /\ get_token(token_cache, auth_args.key) \notin probe_failed
    /\ \A c \in Credentials : token_cache[c] \notin probe_failed

\* a call found a cached token, its probe failed, the entry was invalidated
\* and the fresh authentication failed too
C36_Witness ==
    /\ auth_pc = "returned"
    /\ ~auth_return.success
    /\ cached_token /= NoCachedToken
    /\ cached_token \in probe_failed
    /\ token_cache[auth_args.key] = NoCachedToken

\* the outcomes after which the loop tries again
RetryableOutcomes ==
    CaptchaFailures \cup {"network_error", "login_failed", "exception"}

\* C37: _perform_fresh_authentication makes at most FreshMaxRetries
\* attempts; every attempt but the last one made ended with a CAPTCHA
\* failure, another login failure or an exception; wrong credentials or a
\* locked account end the call at once with failure; the first success ends
\* it with the token; and a call that fails otherwise has used every attempt.
C37_FreshAuthBounded ==
    /\ Len(pf_outcomes) <= FreshMaxRetries
    /\ \A k \in 1..(Len(pf_outcomes) - 1) : pf_outcomes[k] \in RetryableOutcomes
    /\ pf_pc \in {"attempt", "sleep"} =>
          /\ Len(pf_outcomes) < FreshMaxRetries
          /\ \A k \in DOMAIN pf_outcomes : pf_outcomes[k] \in RetryableOutcomes
    /\ (pf_pc /= "idle" /\ pf_outcomes /= <<>>) =>
          LET last == pf_outcomes[Len(pf_outcomes)]
          IN  /\ last \in {"wrong_credentials", "account_locked"} =>
                    pf_pc = "returned" /\ ~pf_return.success
              /\ last = "success" <=>
                    (pf_pc = "returned" /\ pf_return.success)
              /\ (pf_pc = "returned" /\ last \in RetryableOutcomes) =>
                    /\ ~pf_return.success
                    /\ Len(pf_outcomes) = FreshMaxRetries

\* a call stopped by the locked-account message on its second attempt
C37_Witness ==
    /\ pf_pc = "returned"
    /\ Len(pf_outcomes) = 2
    /\ pf_outcomes[1] = "captcha_solve_failed"
    /\ pf_outcomes[2] = "account_locked"
    /\ ~pf_return.success


\* a step of the export that sends a download request
RequestSent == dl.pc = "request" /\ dl'.pc /= "request"

\* C38 (first part): a file's download makes at most MAX_RETRIES requests
\* and then gives up
DownloadBounded ==
    /\ [](dl.requests <= MAX_RETRIES)
    /\ [][(RequestSent /\ dl'.requests = MAX_RETRIES /\ dl'.prev /= "200")
            => (dl'.pc = "between" /\ dl'.downloaded_files = dl.downloaded_files)]_vars

\* C38 (second part): the request after a 429 has waited longer than the
\* request after an ordinary failure of the same attempt
CooldownLonger ==
    [][(RequestSent /\ dl.attempt > 0) =>
         IF dl.prev = "429" THEN dl.waited > BackoffWait(dl.attempt)
         ELSE dl.waited = BackoffWait(dl.attempt)]_vars

\* C38 (third part): after a 401 on any file no download request is sent
\* for the remaining pairs of the export
AuthFailureEndsExport == [][dl.auth_failed => ~RequestSent]_vars

\* C38: bulk-export download: each file download makes at most MAX_RETRIES
\* (5) requests and then gives up, a 429 is followed by a longer cooldown
\* than an ordinary failure, and after a 401 on any file no further download
\* request is issued for the remaining (flow, status) pairs of the export.
C38_ExportDownload ==
    DownloadBounded /\ CooldownLonger /\ AuthFailureEndsExport



SucceededChunks == {k \in 1..Len(chunk_log) : chunk_log[k] = "results"}

\* C40: in a multi-chunk import the chunks are processed one at a time in
\* date order, and a chunk whose processing fails entirely is recorded and
\* skipped: every later chunk is still processed, the results of earlier and
\* later chunks are kept in the final result, and the failed chunk does not
\* abort the crawl.
C40_FailedChunkSkipped ==
    /\ [](/\ \A k \in 1..(Len(date_chunks) - 1) :
                DateLess(date_chunks[k][1], date_chunks[k + 1][1])
          /\ cpc = "processing" =>
                chunk_calls = chunk_idx /\ Len(chunk_log) = chunk_idx - 1
          /\ cpc = "sleeping" =>
                chunk_calls = chunk_idx /\ Len(chunk_log) = chunk_idx
          /\ (cpc = "returned" /\ Len(date_chunks) >= 1) =>
                /\ chunk_calls = Len(date_chunks)
                /\ Len(chunk_log) = Len(date_chunks)
                /\ {crawl_return[n] : n \in 1..Len(crawl_return)}
                      = SucceededChunks
                /\ \A n \in 1..(Len(crawl_return) - 1) :
                      crawl_return[n] < crawl_return[n + 1])
    /\ [][/\ chunk_idx' \in {chunk_idx, chunk_idx + 1}
          /\ \A n \in 1..Len(crawl_results) :
                n <= Len(crawl_results') /\ crawl_results'[n] = crawl_results[n]
          /\ (cpc = "processing" /\ chunk_idx < Len(date_chunks)) =>
                cpc' = "sleeping"]_vars

\* a three-chunk crawl whose second chunk failed has returned the results
\* of the first and the third
C40_Witness ==
    /\ cpc = "returned"
    /\ Len(date_chunks) >= 3
    /\ chunk_log[1] = "results"
    /\ chunk_log[2] \in {"empty", "raised"}
    /\ chunk_log[3] = "results"
    /\ crawl_return[1] = 1
    /\ crawl_return[2] = 3


==============================================================================
